---------------------------- MODULE Spec2Model ----------------------------
(***************************************************************************)
(* A model of the semantic document store of vtuson/slackagent             *)
(* (src/embedding/embedding.go): the EmbeddingStore with its               *)
(* sync.RWMutex, AddDocument, SetProvider, Search (provider call, scoring, *)
(* threshold filter, exchange sort, top-K truncation), Save/Load through   *)
(* encoding/json, Clear, IsStale, the pure helper ChunkText, and           *)
(* GetEmbeddingsBatch of the two bundled providers (the remote one in      *)
(* src/agent/mcp.go).                                                      *)
(*                                                                         *)
(* Conventions                                                             *)
(*  - a float32 is a record [nan, v]: v is the value on an integer grid,   *)
(*    nan marks NaN, with IEEE comparison (every comparison with NaN is    *)
(*    false) and arithmetic (NaN is absorbing);                            *)
(*  - a Go string is a sequence of byte tokens; InvalidByte is a byte that *)
(*    is not valid UTF-8, ReplacementRune is U+FFFD;                       *)
(*  - a process position pc[p] is <<operation, stage>>.                    *)
(***************************************************************************)
EXTENDS Integers, Sequences, FiniteSets, TLC

(***************************************************************************)
(* Bounds of the model.                                                    *)
(***************************************************************************)
MaxDocs == 3        \* AddDocument calls made in one behaviour
MaxTextLen == 7     \* characters of a text handed to ChunkText
MaxChunkArg == 3    \* largest chunkSize and overlap handed to ChunkText
MaxClock == 3       \* clock ticks that may elapse
TicksPerSecond == 2 \* clock ticks in a second, the resolution of RFC3339
MaxDays == 7        \* days that may elapse
MaxBatch == 3       \* texts handed to GetEmbeddingsBatch in one call
MaxDestroys == 3    \* Destroy calls made on one store
MaxContentLen == 6  \* characters of a content handed to ExtractLinks
MaxPrefixLen == 2   \* characters of a basePrefix handed to ExtractLinks
MaxLockDocs == 1    \* documents in the store that concurrent callers share
MaxPages == 2       \* pages in which the server lists its tools

(***************************************************************************)
(* float32                                                                 *)
(***************************************************************************)
F(n) == [nan |-> FALSE, v |-> n]
NaN == [nan |-> TRUE, v |-> 0]
FAdd(a, b) == IF a.nan \/ b.nan THEN NaN ELSE F(a.v + b.v)
FMul(a, b) == IF a.nan \/ b.nan THEN NaN ELSE F(a.v * b.v)
FGe(a, b) == ~a.nan /\ ~b.nan /\ a.v >= b.v
FGt(a, b) == ~a.nan /\ ~b.nan /\ a.v > b.v

(***************************************************************************)
(* Strings, errors, processes                                              *)
(***************************************************************************)
InvalidByte == "\\xff"
ReplacementRune == "U+FFFD"

\* The values of es.LastUpdated: the empty string, a time as time.RFC3339
\* formats it (whole seconds), or other text.
EmptyString == [form |-> "empty", sec |-> 0]
FormatRFC3339(t) == [form |-> "rfc3339", sec |-> t \div TicksPerSecond]
ParseRFC3339(str) ==
    IF str.form = "rfc3339"
    THEN [ok |-> TRUE, t |-> str.sec * TicksPerSecond]
    ELSE [ok |-> FALSE, t |-> 0]
NoErr == "nil"
NoProc == "none"
NilProvider == "nil-provider"
ErrProviderNotInitialized == "embedding provider not initialized"

Procs == {"p1", "p2", "p3"}
Idle == <<"idle", "idle">>

(***************************************************************************)
(* Inputs                                                                  *)
(***************************************************************************)
Doc(id, content, emb, depth) ==
    [id |-> <<id>>, content |-> content, url |-> <<"u">>, title |-> <<>>,
     embedding |-> emb, depth |-> depth]

DocPool ==
    { Doc("d1", <<"a">>, <<F(2), F(0)>>, 0),
      Doc("d2", <<"b">>, <<F(1), F(1)>>, 1),
      Doc("d3", <<"a">>, <<F(0), F(1)>>, 0),
      Doc("d4", <<"b">>, <<F(1)>>, 2),
      Doc("d5", <<"a">>, <<NaN, F(1)>>, 0) }

Queries == {"q1", "q2"}
TopKs == {-1, 0, 1, 2}
Thresholds == {F(0), F(1), F(2), NaN}
Providers == {"local", "remote"}

\* What a provider's backend answers for a text when it answers: the two
\* bundled providers use models of different dimensionality.
ProviderEmbedding(pr, text) ==
    IF pr = "local"
    THEN (IF text = "q1" THEN <<F(1), F(0)>> ELSE <<F(1), F(1)>>)
    ELSE (IF text = "q1" THEN <<F(1)>> ELSE <<F(2)>>)

\* The errors a provider's GetEmbedding can return.
ProviderErrors(pr) ==
    IF pr = "local"
    THEN {"failed to generate embedding", "empty embedding result"}
    ELSE {"failed to make API request", "empty embedding response"}

(***************************************************************************)
(* State                                                                   *)
(***************************************************************************)
VARIABLES
    documents,     \* es.Documents
    lastUpdated,   \* es.LastUpdated
    provider,      \* es.provider
    wMutex,        \* es.mu: the writer that has announced itself (holds rw.w)
    rActive,       \* es.mu: the readers holding the shared lock
    pc,            \* position of each process
    args,          \* arguments of the call each process is in
    loc,           \* locals of the call each process is in
    ret,           \* what each process's last call returned
    obs,           \* history: what each process's current/last call observed
    addLog,        \* history: the documents passed to AddDocument, in call
                   \* order, since the store was constructed, loaded or
                   \* cleared
    file,          \* the backing file at es.filePath
    now,           \* the wall clock, in ticks
    saved,         \* history: the store as the last successful Save wrote it
    chunk,         \* the ChunkText call being run: inputs, locals, result
    session,       \* es.session, the backend runtime the store created
    links,         \* the ExtractLinks call being run: inputs, locals, result
    mcp            \* an MCPClient: its session field, its mutex, the session

storeVars == <<documents, lastUpdated, provider>>
lockVars == <<wMutex, rActive>>
procVars == <<pc, args, loc, ret, obs>>
auxVars == <<session, links, mcp>>
extVars == <<file, now, saved, chunk, session, links, mcp>>
vars == <<documents, lastUpdated, provider, wMutex, rActive,
          pc, args, loc, ret, obs, addLog, file, now, saved, chunk,
          session, links, mcp>>

\* session, err := hugot.NewORTSession(...): the session NewEmbeddingStore
\* stores in es.session, with the calls of its Destroy counted.
SessionCreated == [set |-> TRUE, live |-> TRUE, destroyCalls |-> 0]

\* &MCPClient{client: client, session: session} as ConnectMCP returns it:
\* session is the field c.session, conn the ClientSession it points at,
\* writer and readers the state of c.mu; closeCalls counts the calls of
\* the ClientSession's Close and late tells whether a request was made on
\* the ClientSession after it was closed.
MCPConnected ==
    [session |-> "set", conn |-> "open", writer |-> NoProc, readers |-> {},
     closeCalls |-> 0, late |-> FALSE]

NoArgs == [op |-> "none"]
NoLoc == [op |-> "none"]
NoRet == [op |-> "none"]
NoObs == [op |-> "none"]

Init ==
    /\ documents = <<>>
    /\ lastUpdated = EmptyString
    /\ provider = "local"
    /\ wMutex = NoProc
    /\ rActive = {}
    /\ pc = [p \in Procs |-> Idle]
    /\ args = [p \in Procs |-> NoArgs]
    /\ loc = [p \in Procs |-> NoLoc]
    /\ ret = [p \in Procs |-> NoRet]
    /\ obs = [p \in Procs |-> NoObs]
    /\ addLog = <<>>
    /\ file = [exists |-> FALSE]
    /\ now = 0
    /\ saved = [valid |-> FALSE]
    /\ chunk = [pc |-> "none"]
    /\ session = SessionCreated
    /\ links = [pc |-> "none"]
    /\ mcp = MCPConnected


(***************************************************************************)
(* es.mu, a sync.RWMutex.  Lock() takes the writers' mutex and announces   *)
(* the writer, which turns new readers away, then waits for the readers    *)
(* that hold the lock to leave.  RLock() is admitted when no writer has    *)
(* announced itself and waits otherwise; Unlock() admits every waiting     *)
(* reader.                                                                 *)
(***************************************************************************)
ReaderAdmittedAlways == TRUE
ReaderAdmitted == wMutex = NoProc

ReadersGoneUnchecked == TRUE
ReadersGone == rActive = {}

At(p, op, stage) == pc[p] = <<op, stage>>
Goto(p, op, stage) == pc' = [pc EXCEPT ![p] = <<op, stage>>]

\* es.mu.Lock(), first half: take rw.w and announce the writer.
Lock(p) ==
    /\ pc[p][2] = "lock"
    /\ wMutex = NoProc
    /\ wMutex' = p
    /\ Goto(p, pc[p][1], "drain")
    /\ UNCHANGED <<storeVars, rActive, args, loc, ret, obs, addLog, extVars>>

\* es.mu.Lock(), second half: wait until no reader holds the lock.
LockDrained(p) ==
    /\ pc[p][2] = "drain"
    /\ ReadersGone
    /\ Goto(p, pc[p][1], "in")
    /\ UNCHANGED <<storeVars, lockVars, args, loc, ret, obs, addLog, extVars>>

\* es.mu.RLock()
RLock(p) ==
    /\ pc[p][2] = "rlock"
    /\ IF ReaderAdmitted
       THEN /\ rActive' = rActive \cup {p}
            /\ Goto(p, pc[p][1], "in")
       ELSE /\ Goto(p, pc[p][1], "rwait")
            /\ UNCHANGED rActive
    /\ UNCHANGED <<storeVars, wMutex, args, loc, ret, obs, addLog, extVars>>

\* deferred es.mu.Unlock() as p returns: the waiting readers are admitted.
Unlock(p) ==
    /\ wMutex' = NoProc
    /\ rActive' = rActive \cup {q \in Procs : pc[q][2] = "rwait"}
    /\ pc' = [q \in Procs |->
                IF q = p THEN Idle
                ELSE IF pc[q][2] = "rwait" THEN <<pc[q][1], "in">>
                ELSE pc[q]]

\* A return that leaves the shared lock held.
RUnlockForgotten(p) ==
    /\ pc' = [pc EXCEPT ![p] = Idle]
    /\ UNCHANGED <<rActive, wMutex>>

\* deferred es.mu.RUnlock() as p returns.
RUnlock(p) ==
    /\ rActive' = rActive \ {p}
    /\ pc' = [pc EXCEPT ![p] = Idle]
    /\ UNCHANGED wMutex

(***************************************************************************)
(* AddDocument(doc)                                                        *)
(***************************************************************************)
\* The AddDocument calls that have not appended their document yet.
PendingAdds ==
    {q \in Procs : pc[q][1] = "AddDocument" /\ pc[q][2] # "fill"}

AddDocumentCall(p, d) ==
    /\ pc[p] = Idle
    /\ Len(addLog) < MaxDocs
    /\ Len(documents) + Cardinality(PendingAdds) < MaxDocs
    /\ Goto(p, "AddDocument", "lock")
    /\ args' = [args EXCEPT ![p] = [op |-> "AddDocument", doc |-> d]]
    /\ loc' = [loc EXCEPT ![p] = NoLoc]
    /\ obs' = [obs EXCEPT ![p] = NoObs]
    /\ ret' = [ret EXCEPT ![p] = NoRet]
    /\ addLog' = Append(addLog, d)
    /\ UNCHANGED <<storeVars, lockVars, extVars>>

\* The element as a reader without the lock could find it while append is
\* copying the struct into the grown slice: the embedding's slice header is
\* not written yet.
PartlyWritten(d) == [d EXCEPT !.embedding = <<>>]

\* es.Documents = append(es.Documents, doc), the slice grown and the element
\* being copied in.
Prepended(docs, d) == <<d>> \o docs
Appended(docs, d) == Append(docs, d)

AddDocumentAppend(p) ==
    /\ At(p, "AddDocument", "in")
    /\ documents' = Appended(documents, PartlyWritten(args[p].doc))
    /\ Goto(p, "AddDocument", "fill")
    /\ UNCHANGED <<lastUpdated, provider, lockVars, args, loc, ret, obs, addLog, extVars>>

\* ... the element complete; the deferred Unlock; return.
AddDocumentReturn(p) ==
    /\ At(p, "AddDocument", "fill")
    /\ documents' = [documents EXCEPT ![Len(documents)] = args[p].doc]
    /\ Unlock(p)
    /\ ret' = [ret EXCEPT ![p] = [op |-> "AddDocument"]]
    /\ UNCHANGED <<lastUpdated, provider, args, loc, obs, addLog, extVars>>

(***************************************************************************)
(* SetProvider(provider)                                                   *)
(***************************************************************************)
SetProviderCall(p, pr) ==
    /\ pc[p] = Idle
    /\ Goto(p, "SetProvider", "lock")
    /\ args' = [args EXCEPT ![p] = [op |-> "SetProvider", provider |-> pr]]
    /\ loc' = [loc EXCEPT ![p] = NoLoc]
    /\ obs' = [obs EXCEPT ![p] = NoObs]
    /\ ret' = [ret EXCEPT ![p] = NoRet]
    /\ UNCHANGED <<storeVars, lockVars, addLog, extVars>>

SetProviderReturn(p) ==
    /\ At(p, "SetProvider", "in")
    /\ provider' = args[p].provider
    /\ Unlock(p)
    /\ ret' = [ret EXCEPT ![p] = [op |-> "SetProvider"]]
    /\ UNCHANGED <<documents, lastUpdated, args, loc, obs, addLog, extVars>>

(***************************************************************************)
(* CosineSimilarity(a, b): 0 for vectors of different lengths, else the    *)
(* dot product, accumulated left to right.                                 *)
(***************************************************************************)
RECURSIVE DotProduct(_, _, _)
DotProduct(a, b, n) ==
    IF n = 0 THEN F(0)
    ELSE FAdd(DotProduct(a, b, n - 1), FMul(a[n], b[n]))

Min(x, y) == IF x < y THEN x ELSE y

\* A CosineSimilarity without the length guard, multiplying as far as both
\* vectors reach.
CosineSimilarityNoGuard(a, b) == DotProduct(a, b, Min(Len(a), Len(b)))

CosineSimilarity(a, b) ==
    IF Len(a) # Len(b) THEN F(0) ELSE DotProduct(a, b, Len(a))

(***************************************************************************)
(* Search(query, topK, threshold)                                          *)
(***************************************************************************)
\* if similarity >= threshold
PassesThresholdStrict(similarity, threshold) == FGt(similarity, threshold)
PassesThreshold(similarity, threshold) == FGe(similarity, threshold)

\* The SearchResult of the document at position i.  pos is history (the
\* document's position in es.Documents); the code's struct has Document and
\* Similarity.
Scored(docs, queryEmbedding, i) ==
    [Document |-> docs[i],
     Similarity |-> CosineSimilarity(queryEmbedding, docs[i].embedding),
     pos |-> i]

\* for _, doc := range es.Documents { ... results = append(results, ...) }
RECURSIVE ScanFrom(_, _, _, _)
ScanFrom(docs, queryEmbedding, threshold, i) ==
    IF i > Len(docs) THEN <<>>
    ELSE LET r == Scored(docs, queryEmbedding, i)
             rest == ScanFrom(docs, queryEmbedding, threshold, i + 1)
         IN  IF PassesThreshold(r.Similarity, threshold) THEN <<r>> \o rest
             ELSE rest

Swap(s, i, j) == [s EXCEPT ![i] = s[j], ![j] = s[i]]

\* the inner loop: for j := i + 1; j < len(results); j++
RECURSIVE SortInner(_, _, _)
SortInner(s, i, j) ==
    IF j > Len(s) THEN s
    ELSE SortInner(IF FGt(s[j].Similarity, s[i].Similarity)
                   THEN Swap(s, i, j) ELSE s,
                   i, j + 1)

\* the outer loop: for i := 0; i < len(results); i++
RECURSIVE SortOuter(_, _)
SortOuter(s, i) ==
    IF i > Len(s) THEN s ELSE SortOuter(SortInner(s, i, i + 1), i + 1)

\* A sort whose outer loop stops one element early, and which then never
\* compares the last two.
RECURSIVE SortOuterShort(_, _)
SortOuterShort(s, i) ==
    IF i > Len(s) - 2 THEN s
    ELSE SortOuterShort(SortInner(s, i, i + 1), i + 1)

SortResultsShort(s) == SortOuterShort(s, 1)
SortResults(s) == SortOuter(s, 1)

\* if topK > 0 && len(results) > topK { results = results[:topK] }
TopKNonNegative(results, topK) ==
    IF topK >= 0 /\ Len(results) > topK
    THEN SubSeq(results, 1, topK) ELSE results
TopK(results, topK) ==
    IF topK > 0 /\ Len(results) > topK
    THEN SubSeq(results, 1, topK) ELSE results

\* if len(es.Documents) == 0
StoreIsEmptyUnchecked == FALSE
StoreIsEmpty == Len(documents) = 0

\* return nil, err
SearchErrorWrapped(e) == "failed to get query embedding"
SearchError(e) == e

SearchCall(p, q, k, th) ==
    /\ pc[p] = Idle
    /\ Goto(p, "Search", "rlock")
    /\ args' = [args EXCEPT ![p] =
                  [op |-> "Search", query |-> q, topK |-> k, threshold |-> th]]
    /\ loc' = [loc EXCEPT ![p] = [op |-> "Search", queryEmbedding |-> <<>>]]
    /\ obs' = [obs EXCEPT ![p] =
                 [op |-> "Search", calls |-> 0, provider |-> NilProvider,
                  providerErr |-> NoErr, docs |-> <<>>, docsAtEnd |-> <<>>,
                  ts |-> lastUpdated, tsAtEnd |-> lastUpdated,
                  passed |-> <<>>]]
    /\ ret' = [ret EXCEPT ![p] = NoRet]
    /\ UNCHANGED <<storeVars, lockVars, addLog, extVars>>

\* if len(es.Documents) == 0 { return nil, nil }
SearchCheckEmpty(p) ==
    /\ At(p, "Search", "in")
    /\ obs' = [obs EXCEPT ![p].docs = documents, ![p].docsAtEnd = documents,
                          ![p].ts = lastUpdated, ![p].tsAtEnd = lastUpdated]
    /\ IF StoreIsEmpty
       THEN /\ ret' = [ret EXCEPT ![p] =
                         [op |-> "Search", results |-> <<>>, err |-> NoErr]]
            /\ RUnlock(p)
       ELSE /\ Goto(p, "Search", "embed")
            /\ UNCHANGED <<ret, lockVars>>
    /\ UNCHANGED <<storeVars, args, loc, addLog, extVars>>

\* queryEmbedding, err := es.GetEmbedding(ctx, query): no provider
SearchNoProvider(p) ==
    /\ At(p, "Search", "embed")
    /\ provider = NilProvider
    /\ ret' = [ret EXCEPT ![p] =
                 [op |-> "Search", results |-> <<>>,
                  err |-> SearchError(ErrProviderNotInitialized)]]
    /\ obs' = [obs EXCEPT ![p].docsAtEnd = documents,
                          ![p].tsAtEnd = lastUpdated]
    /\ RUnlock(p)
    /\ UNCHANGED <<storeVars, args, loc, addLog, extVars>>

\* ... the provider answers with a vector
SearchGotEmbedding(p) ==
    /\ At(p, "Search", "embed")
    /\ provider # NilProvider
    /\ loc' = [loc EXCEPT ![p].queryEmbedding =
                 ProviderEmbedding(provider, args[p].query)]
    /\ obs' = [obs EXCEPT ![p].calls = @ + 1, ![p].provider = provider]
    /\ Goto(p, "Search", "score")
    /\ UNCHANGED <<storeVars, lockVars, args, ret, addLog, extVars>>

\* ... the provider fails: if err != nil { return nil, err }
SearchProviderFailed(p) ==
    /\ At(p, "Search", "embed")
    /\ provider # NilProvider
    /\ \E e \in ProviderErrors(provider) :
         /\ ret' = [ret EXCEPT ![p] =
                      [op |-> "Search", results |-> <<>>,
                       err |-> SearchError(e)]]
         /\ obs' = [obs EXCEPT ![p].calls = @ + 1, ![p].provider = provider,
                               ![p].providerErr = e,
                               ![p].docsAtEnd = documents,
                               ![p].tsAtEnd = lastUpdated]
    /\ RUnlock(p)
    /\ UNCHANGED <<storeVars, args, loc, addLog, extVars>>

\* the scan, the sort, the truncation, return results, nil
SearchScore(p) ==
    /\ At(p, "Search", "score")
    /\ LET passed == ScanFrom(documents, loc[p].queryEmbedding,
                              args[p].threshold, 1)
       IN  /\ ret' = [ret EXCEPT ![p] =
                        [op |-> "Search",
                         results |-> TopK(SortResults(passed), args[p].topK),
                         err |-> NoErr]]
           /\ obs' = [obs EXCEPT ![p].passed = passed,
                                 ![p].docsAtEnd = documents,
                                 ![p].tsAtEnd = lastUpdated]
    /\ RUnlock(p)
    /\ UNCHANGED <<storeVars, args, loc, addLog, extVars>>

(***************************************************************************)
(* The store used by one caller at a time.                                 *)
(***************************************************************************)
SeqProc == "p1"

NextSeq ==
    \/ \E d \in DocPool : AddDocumentCall(SeqProc, d)
    \/ AddDocumentAppend(SeqProc)
    \/ AddDocumentReturn(SeqProc)
    \/ \E pr \in Providers \cup {NilProvider} : SetProviderCall(SeqProc, pr)
    \/ SetProviderReturn(SeqProc)
    \/ \E q \in Queries, k \in TopKs, th \in Thresholds :
         SearchCall(SeqProc, q, k, th)
    \/ SearchCheckEmpty(SeqProc)
    \/ SearchNoProvider(SeqProc)
    \/ SearchGotEmbedding(SeqProc)
    \/ SearchProviderFailed(SeqProc)
    \/ SearchScore(SeqProc)
    \/ Lock(SeqProc)
    \/ LockDrained(SeqProc)
    \/ RLock(SeqProc)

SpecSeq == Init /\ [][NextSeq]_vars

(***************************************************************************)
(* Properties of Search.  A Search that has returned leaves its arguments, *)
(* its locals and what it observed in place until the process's next call. *)
(***************************************************************************)
SearchReturned(p) == pc[p] = Idle /\ ret[p].op = "Search"

\* ... and it got as far as scoring: the store was not empty and the
\* provider answered.
SearchScored(p) ==
    /\ SearchReturned(p)
    /\ Len(obs[p].docs) > 0
    /\ obs[p].calls = 1
    /\ obs[p].providerErr = NoErr

SimilarityAt(p, i) ==
    CosineSimilarity(loc[p].queryEmbedding, obs[p].docs[i].embedding)

\* The positions of the stored documents whose similarity is >= threshold.
Passing(p) ==
    {i \in 1..Len(obs[p].docs) : FGe(SimilarityAt(p, i), args[p].threshold)}

Returned(p) == {ret[p].results[k].pos : k \in 1..Len(ret[p].results)}

\* Every result is the stored document at its position, with its similarity,
\* and no position is returned twice.
ResultsAreStoredDocuments(p) ==
    /\ \A k \in 1..Len(ret[p].results) :
         LET r == ret[p].results[k]
         IN  /\ r.pos \in 1..Len(obs[p].docs)
             /\ r.Document = obs[p].docs[r.pos]
             /\ r.Similarity = SimilarityAt(p, r.pos)
    /\ Cardinality(Returned(p)) = Len(ret[p].results)

\* C2: on a non-empty store, with the provider answering and topK <= 0,
\* Search returns exactly the stored documents whose similarity is
\* >= threshold: equality passes, nothing below passes, nothing passing is
\* left out.
C2_ThresholdInclusive ==
    \A p \in Procs :
      (SearchScored(p) /\ args[p].topK <= 0) =>
        /\ ret[p].err = NoErr
        /\ ResultsAreStoredDocuments(p)
        /\ Returned(p) = Passing(p)

\* A Search with topK <= 0 that returned a document scoring exactly the
\* threshold and left out one scoring below it.
C2_Witness ==
    \E p \in Procs :
      /\ SearchScored(p) /\ args[p].topK <= 0
      /\ \E k \in 1..Len(ret[p].results) :
           ret[p].results[k].Similarity = args[p].threshold
      /\ \E i \in 1..Len(obs[p].docs) :
           /\ i \notin Returned(p)
           /\ FGt(args[p].threshold, SimilarityAt(p, i))

\* C3: the results are in descending order of similarity.
C3_SortedDescending ==
    \A p \in Procs :
      SearchReturned(p) =>
        \A i, j \in 1..Len(ret[p].results) :
          i < j => FGe(ret[p].results[i].Similarity,
                       ret[p].results[j].Similarity)

\* A Search that returned three results of three different similarities
\* which the scan had met in another order.
C3_Witness ==
    \E p \in Procs :
      /\ SearchScored(p)
      /\ Len(ret[p].results) = 3
      /\ FGt(ret[p].results[1].Similarity, ret[p].results[2].Similarity)
      /\ FGt(ret[p].results[2].Similarity, ret[p].results[3].Similarity)
      /\ obs[p].passed # ret[p].results

\* C4: with topK > 0 and more than topK documents passing, exactly topK
\* results come back and each is at least as similar as every passing
\* document left out; otherwise every passing document comes back.
C4_TopK ==
    \A p \in Procs :
      SearchScored(p) =>
        /\ ResultsAreStoredDocuments(p)
        /\ IF args[p].topK > 0 /\ Cardinality(Passing(p)) > args[p].topK
           THEN /\ Len(ret[p].results) = args[p].topK
                /\ Returned(p) \subseteq Passing(p)
                /\ \A i \in Returned(p), j \in Passing(p) \ Returned(p) :
                     FGe(SimilarityAt(p, i), SimilarityAt(p, j))
           ELSE Returned(p) = Passing(p)

\* A Search with topK = 2 over three passing documents that cut the one
\* document strictly less similar than both it returned.
C4_Witness ==
    \E p \in Procs :
      /\ SearchScored(p)
      /\ args[p].topK = 2
      /\ Cardinality(Passing(p)) = 3
      /\ Len(ret[p].results) = 2
      /\ \E j \in Passing(p) \ Returned(p) :
           FGt(ret[p].results[2].Similarity, SimilarityAt(p, j))

\* C5: two returned documents of equal similarity come back in the order
\* in which they were added.  (Stated for results a caller can tell apart.)
C5_StableTies ==
    \A p \in Procs :
      SearchReturned(p) =>
        \A i, j \in 1..Len(ret[p].results) :
          LET a == ret[p].results[i]
              b == ret[p].results[j]
          IN  (i < j /\ a.Similarity = b.Similarity
                     /\ a.Document # b.Document)
                => a.pos < b.pos

MismatchedAt(p, i) ==
    Len(obs[p].docs[i].embedding) # Len(loc[p].queryEmbedding)

\* C6 as stated: vectors of different lengths score exactly 0, the Search
\* completes without error, and a document of another dimension is
\* returned if and only if threshold <= 0.
C6_MismatchReturnedIffThresholdLeZero ==
    \A p \in Procs :
      SearchScored(p) =>
        /\ ret[p].err = NoErr
        /\ \A i \in 1..Len(obs[p].docs) :
             MismatchedAt(p, i) =>
               /\ SimilarityAt(p, i) = F(0)
               /\ (i \in Returned(p)) <=> FGe(F(0), args[p].threshold)

\* C6 amended: ... such a document is returned only if threshold <= 0 and
\* then with similarity 0, and it is returned whenever threshold <= 0 and
\* the top-K truncation did not cut the results (topK <= 0, or fewer than
\* topK results came back).
C6_MismatchScoresZero ==
    \A p \in Procs :
      SearchScored(p) =>
        /\ ret[p].err = NoErr
        /\ \A i \in 1..Len(obs[p].docs) :
             MismatchedAt(p, i) =>
               /\ SimilarityAt(p, i) = F(0)
               /\ (i \in Returned(p)) => FGe(F(0), args[p].threshold)
               /\ \A k \in 1..Len(ret[p].results) :
                    ret[p].results[k].pos = i =>
                      ret[p].results[k].Similarity = F(0)
               /\ ( /\ FGe(F(0), args[p].threshold)
                    /\ (args[p].topK <= 0
                          \/ Len(ret[p].results) < args[p].topK) )
                    => i \in Returned(p)

\* A Search over a store of mixed dimensions that returned a document of
\* another dimension than the query, and one of the query's dimension.
C6_Witness ==
    \E p \in Procs :
      /\ SearchScored(p)
      /\ \E i, j \in Returned(p) :
           /\ MismatchedAt(p, i)
           /\ Len(obs[p].docs[i].embedding) > Len(loc[p].queryEmbedding)
           /\ ~MismatchedAt(p, j)

\* C7: on a non-empty store, when the provider's GetEmbedding fails, Search
\* returns that error as it is and no results, has called the provider
\* once, and documents and lastUpdated are what they were.
C7_ProviderErrorPropagated ==
    \A p \in Procs :
      (SearchReturned(p) /\ obs[p].providerErr # NoErr) =>
        /\ ret[p].err = obs[p].providerErr
        /\ ret[p].results = <<>>
        /\ obs[p].calls = 1
        /\ obs[p].docsAtEnd = obs[p].docs
        /\ obs[p].tsAtEnd = obs[p].ts

\* A Search on a non-empty store that returned after its provider failed.
C7_Witness ==
    \E p \in Procs :
      /\ SearchReturned(p)
      /\ obs[p].providerErr # NoErr
      /\ Len(obs[p].docs) > 0

\* C8: on a store of zero documents Search returns an empty result and no
\* error without calling the provider, whatever the provider is.
C8_EmptyStore ==
    \A p \in Procs :
      (SearchReturned(p) /\ Len(obs[p].docs) = 0) =>
        /\ ret[p].results = <<>>
        /\ ret[p].err = NoErr
        /\ obs[p].calls = 0

\* A Search that returned from an empty store whose provider is unset.
C8_Witness ==
    \E p \in Procs :
      /\ SearchReturned(p)
      /\ Len(obs[p].docs) = 0
      /\ provider = NilProvider
      /\ ret[p].err = NoErr

(***************************************************************************)
(* AddDocument and Search called concurrently on a store that starts       *)
(* empty.                                                                  *)
(***************************************************************************)
ConcDocs ==
    { Doc("d1", <<"a">>, <<F(2), F(0)>>, 0),
      Doc("d2", <<"b">>, <<F(1), F(1)>>, 1) }
ConcQueries == {"q1"}
ConcTopKs == {0}
ConcThresholds == {F(0)}

NextAddSearch ==
    \E p \in Procs :
      \/ \E d \in ConcDocs : AddDocumentCall(p, d)
      \/ AddDocumentAppend(p)
      \/ AddDocumentReturn(p)
      \/ \E q \in ConcQueries, k \in ConcTopKs, th \in ConcThresholds :
           SearchCall(p, q, k, th)
      \/ SearchCheckEmpty(p)
      \/ SearchGotEmbedding(p)
      \/ SearchProviderFailed(p)
      \/ SearchScore(p)
      \/ Lock(p)
      \/ LockDrained(p)
      \/ RLock(p)

SpecAddSearch == Init /\ [][NextAddSearch]_vars

Count(s, x) == Cardinality({i \in 1..Len(s) : s[i] = x})
Range(s) == {s[i] : i \in 1..Len(s)}

\* No AddDocument call is under way.
AllAddsReturned == \A p \in Procs : pc[p][1] # "AddDocument"

\* C1: with AddDocument and Search calls interleaved in any order on a
\* store that starts empty, once every AddDocument call has returned the
\* store holds exactly the documents that were passed, one for each call,
\* and every document any Search returns is, field by field and with its
\* whole embedding, a document that was passed to AddDocument.
C1_NoLostOrPartialAdd ==
    /\ AllAddsReturned =>
         /\ Len(documents) = Len(addLog)
         /\ \A d \in Range(addLog) \cup Range(documents) :
              Count(documents, d) = Count(addLog, d)
    /\ \A p \in Procs :
         SearchReturned(p) =>
           \A k \in 1..Len(ret[p].results) :
             ret[p].results[k].Document \in Range(addLog)

\* Every AddDocument call has returned, the documents were appended in
\* another order than the calls were made, and a Search that ran before the
\* last of them was appended returned some of them.
C1_Witness ==
    /\ AllAddsReturned
    /\ Len(addLog) = Len(documents)
    /\ Len(documents) >= 2
    /\ documents # addLog
    /\ \E p \in Procs :
         /\ SearchReturned(p)
         /\ Len(ret[p].results) > 0
         /\ Len(ret[p].results) < Len(documents)

(***************************************************************************)
(* ChunkText(text, chunkSize, overlap).  A text is a sequence of           *)
(* characters, " " standing for any whitespace character; words differ by  *)
(* their length.                                                           *)
(***************************************************************************)
Alphabet == {"a", "b", " "}

RECURSIVE SeqsUpTo(_, _)
SeqsUpTo(S, n) ==
    IF n = 0 THEN {<<>>}
    ELSE LET shorter == SeqsUpTo(S, n - 1)
         IN  shorter \cup {Append(t, c) : t \in shorter, c \in S}

ExampleText == <<"a", " ", "b", " ", "c", " ", "d", " ", "e">>
Texts == SeqsUpTo(Alphabet, MaxTextLen) \cup {ExampleText}
ChunkArgs == 0..MaxChunkArg

\* strings.TrimSpace(text)
RECURSIVE TrimLeft(_)
TrimLeft(t) ==
    IF t # <<>> /\ Head(t) = " " THEN TrimLeft(Tail(t)) ELSE t

RECURSIVE TrimRight(_)
TrimRight(t) ==
    IF t # <<>> /\ t[Len(t)] = " "
    THEN TrimRight(SubSeq(t, 1, Len(t) - 1)) ELSE t

TrimSpace(t) == TrimRight(TrimLeft(t))

\* regexp.MustCompile(`\s+`).ReplaceAllString(text, " ")
RECURSIVE CollapseWhitespace(_)
CollapseWhitespace(t) ==
    IF Len(t) < 2 THEN t
    ELSE IF t[1] = " " /\ t[2] = " " THEN CollapseWhitespace(Tail(t))
    ELSE <<t[1]>> \o CollapseWhitespace(Tail(t))

\* strings.Fields(text)
RECURSIVE FieldsFrom(_, _, _, _)
FieldsFrom(t, i, word, words) ==
    LET closed == IF word = <<>> THEN words ELSE Append(words, word)
    IN  IF i > Len(t) THEN closed
        ELSE IF t[i] = " " THEN FieldsFrom(t, i + 1, <<>>, closed)
        ELSE FieldsFrom(t, i + 1, Append(word, t[i]), words)

Fields(t) == FieldsFrom(t, 1, <<>>, <<>>)

\* strings.Join(words, " ")
RECURSIVE Join(_)
Join(ws) ==
    IF ws = <<>> THEN <<>>
    ELSE IF Len(ws) = 1 THEN ws[1]
    ELSE ws[1] \o <<" ">> \o Join(Tail(ws))

\* The step of the loop: i += chunkSize - overlap
ChunkStepNoOverlap(chunkSize, overlap) == chunkSize
ChunkStep(chunkSize, overlap) == chunkSize - overlap

\* if end >= len(words) { break }
ReachedEndNever(e, n) == FALSE
ReachedEnd(e, n) == e >= n

\* The call, up to the loop: the text normalized and split into words;
\* a text without words returns nil.
ChunkTextCall(text, chunkSize, overlap) ==
    /\ chunk.pc = "none"
    /\ LET words == Fields(CollapseWhitespace(TrimSpace(text)))
       IN  chunk' = [pc |-> IF Len(words) = 0 THEN "done" ELSE "loop",
                     text |-> text, chunkSize |-> chunkSize,
                     overlap |-> overlap, words |-> words,
                     i |-> 0, chunks |-> <<>>]
    /\ UNCHANGED <<storeVars, lockVars, procVars, addLog, file, now, saved,
                   auxVars>>

\* One pass of for i := 0; i < len(words); i += chunkSize - overlap.
\* words[i:end] panics unless 0 <= i <= end.  The model stops a loop that
\* has produced more than MaxTextLen chunks, more than any text of the
\* model has words.
ChunkTextLoop ==
    /\ chunk.pc = "loop"
    /\ Len(chunk.chunks) <= MaxTextLen
    /\ LET n == Len(chunk.words)
           i == chunk.i
           e == IF i + chunk.chunkSize > n THEN n ELSE i + chunk.chunkSize
       IN  IF ~(i < n)
           THEN chunk' = [chunk EXCEPT !.pc = "done"]
           ELSE IF i < 0 \/ e < i
           THEN chunk' = [chunk EXCEPT !.pc = "panic"]
           ELSE chunk' =
                  [chunk EXCEPT
                     !.chunks = Append(@, Join(SubSeq(chunk.words, i + 1, e))),
                     !.pc = IF ReachedEnd(e, n) THEN "done" ELSE "loop",
                     !.i = IF ReachedEnd(e, n) THEN i
                           ELSE i + ChunkStep(chunk.chunkSize, chunk.overlap)]
    /\ UNCHANGED <<storeVars, lockVars, procVars, addLog, file, now, saved,
                   auxVars>>

NextChunk ==
    \/ /\ chunk.pc = "none"
       /\ \E text \in Texts, chunkSize \in ChunkArgs, overlap \in ChunkArgs :
            ChunkTextCall(text, chunkSize, overlap)
    \/ ChunkTextLoop

SpecChunk == Init /\ [][NextChunk]_vars

\* C9: ChunkText terminates for every text, chunkSize and overlap, also
\* when overlap >= chunkSize: it never panics, and its loop, advancing by
\* at least one word each pass, makes no more passes than the text has
\* words.
C9_ChunkTextTerminates ==
    /\ chunk.pc # "panic"
    /\ chunk.pc \in {"loop", "done"} =>
         Len(chunk.chunks) <= Len(chunk.words)

(***************************************************************************)
(* encoding/json, as Save and Load use it on the store's exported fields.  *)
(* A string is written coerced to valid UTF-8, each invalid byte replaced  *)
(* by U+FFFD; a float32 is written as the shortest decimal that reads back *)
(* to it, and NaN is not written at all (UnsupportedValueError).           *)
(***************************************************************************)
JSONString(str) ==
    [i \in 1..Len(str) |->
       IF str[i] = InvalidByte THEN ReplacementRune ELSE str[i]]

MarshalDocument(d) ==
    [id |-> JSONString(d.id), content |-> JSONString(d.content),
     url |-> JSONString(d.url), title |-> JSONString(d.title),
     embedding |-> d.embedding, depth |-> d.depth]

\* json.MarshalIndent(es, "", "  ") returns an error
MarshalFails(docs) ==
    \E i \in 1..Len(docs) :
      \E j \in 1..Len(docs[i].embedding) : docs[i].embedding[j].nan

\* ... or the file's content
Marshal(docs, ts) ==
    [kind |-> "store",
     documents |-> [i \in 1..Len(docs) |-> MarshalDocument(docs[i])],
     last_updated |-> ts]

\* What is left of a file whose write failed part way.
Truncated == [kind |-> "truncated"]

\* A file that is JSON of the wrong shape:
\* {"documents": [], "last_updated": 5}
Mistyped == [kind |-> "mistyped", documents |-> <<>>]

\* json.Unmarshal(data, es)
UnmarshalFails(content) == content.kind # "store"
\* es.Documents after a json.Unmarshal that failed: a syntax error is found
\* before anything is decoded; a type error is reported after the rest of
\* the input has been decoded into es.
UnmarshalPartial(content, docs) ==
    IF content.kind = "mistyped" THEN content.documents ELSE docs
UnmarshalDocuments(content) == content.documents
UnmarshalLastUpdated(content) == content.last_updated

ErrMarshal == "failed to marshal embeddings"
ErrWriteFile == "failed to write embeddings file"
ErrReadFile == "failed to read embeddings file"
ErrUnmarshal == "failed to unmarshal embeddings"

(***************************************************************************)
(* Save()                                                                  *)
(***************************************************************************)
SaveCall(p) ==
    /\ pc[p] = Idle
    /\ Goto(p, "Save", "lock")
    /\ args' = [args EXCEPT ![p] = [op |-> "Save"]]
    /\ loc' = [loc EXCEPT ![p] = NoLoc]
    /\ obs' = [obs EXCEPT ![p] =
                 [op |-> "Save", docs |-> documents, ts |-> lastUpdated]]
    /\ ret' = [ret EXCEPT ![p] = NoRet]
    /\ UNCHANGED <<storeVars, lockVars, addLog, extVars>>

\* es.LastUpdated = time.Now().Format(time.RFC3339); MarshalIndent fails
SaveMarshalFailed(p) ==
    /\ At(p, "Save", "in")
    /\ MarshalFails(documents)
    /\ lastUpdated' = FormatRFC3339(now)
    /\ ret' = [ret EXCEPT ![p] = [op |-> "Save", err |-> ErrMarshal]]
    /\ Unlock(p)
    /\ UNCHANGED <<documents, provider, args, loc, obs, addLog, extVars>>

\* ... os.WriteFile fails, leaving the file as it was or cut short
SaveWriteFailed(p) ==
    /\ At(p, "Save", "in")
    /\ ~MarshalFails(documents)
    /\ lastUpdated' = FormatRFC3339(now)
    /\ \/ UNCHANGED <<file, saved>>
       \/ /\ file' = [exists |-> TRUE, content |-> Truncated]
          /\ saved' = [valid |-> FALSE]
    /\ ret' = [ret EXCEPT ![p] = [op |-> "Save", err |-> ErrWriteFile]]
    /\ Unlock(p)
    /\ UNCHANGED <<documents, provider, args, loc, obs, addLog, now, chunk,
                   auxVars>>

\* ... the file is written; return nil
SaveReturn(p) ==
    /\ At(p, "Save", "in")
    /\ ~MarshalFails(documents)
    /\ lastUpdated' = FormatRFC3339(now)
    /\ file' = [exists |-> TRUE,
                content |-> Marshal(documents, FormatRFC3339(now))]
    /\ saved' = [valid |-> TRUE, docs |-> documents,
                 ts |-> FormatRFC3339(now)]
    /\ ret' = [ret EXCEPT ![p] = [op |-> "Save", err |-> NoErr]]
    /\ Unlock(p)
    /\ UNCHANGED <<documents, provider, args, loc, obs, addLog, now, chunk,
                   auxVars>>

(***************************************************************************)
(* Load()                                                                  *)
(***************************************************************************)
\* The errors os.ReadFile(es.filePath) can return for the file as it is.
ENOENT == "no such file or directory"
EACCES == "permission denied"
ReadFileErrors == IF file.exists THEN {EACCES} ELSE {ENOENT}

IsNotExistAny(e) == TRUE
IsNotExist(e) == e = ENOENT

LoadCall(p) ==
    /\ pc[p] = Idle
    /\ Goto(p, "Load", "lock")
    /\ args' = [args EXCEPT ![p] = [op |-> "Load"]]
    /\ loc' = [loc EXCEPT ![p] = NoLoc]
    /\ obs' = [obs EXCEPT ![p] =
                 [op |-> "Load", docs |-> documents, ts |-> lastUpdated,
                  read |-> "pending", kind |-> "none"]]
    /\ ret' = [ret EXCEPT ![p] = NoRet]
    /\ UNCHANGED <<storeVars, lockVars, addLog, extVars>>

\* os.ReadFile fails, os.IsNotExist(err): return nil
LoadAbsent(p) ==
    /\ At(p, "Load", "in")
    /\ \E e \in ReadFileErrors :
         /\ IsNotExist(e)
         /\ obs' = [obs EXCEPT ![p].read = e,
                               ![p].docs = documents, ![p].ts = lastUpdated]
    /\ ret' = [ret EXCEPT ![p] = [op |-> "Load", err |-> NoErr]]
    /\ Unlock(p)
    /\ UNCHANGED <<storeVars, args, loc, addLog, extVars>>

\* os.ReadFile fails for another reason
LoadReadFailed(p) ==
    /\ At(p, "Load", "in")
    /\ \E e \in ReadFileErrors :
         /\ ~IsNotExist(e)
         /\ obs' = [obs EXCEPT ![p].read = e,
                               ![p].docs = documents, ![p].ts = lastUpdated]
    /\ ret' = [ret EXCEPT ![p] = [op |-> "Load", err |-> ErrReadFile]]
    /\ Unlock(p)
    /\ UNCHANGED <<storeVars, args, loc, addLog, extVars>>

\* json.Unmarshal fails: on a syntax error before anything is stored, on a
\* value of the wrong type after the other fields have been stored.
LoadUnmarshalFailed(p) ==
    /\ At(p, "Load", "in")
    /\ file.exists
    /\ UnmarshalFails(file.content)
    /\ documents' = UnmarshalPartial(file.content, documents)
    /\ addLog' = IF documents' = documents THEN addLog ELSE <<>>
    /\ obs' = [obs EXCEPT ![p].read = "read", ![p].kind = file.content.kind,
                          ![p].docs = documents, ![p].ts = lastUpdated]
    /\ ret' = [ret EXCEPT ![p] = [op |-> "Load", err |-> ErrUnmarshal]]
    /\ Unlock(p)
    /\ UNCHANGED <<lastUpdated, provider, args, loc, extVars>>

\* json.Unmarshal(data, es) fills Documents and LastUpdated; return nil
LoadReturn(p) ==
    /\ At(p, "Load", "in")
    /\ file.exists
    /\ ~UnmarshalFails(file.content)
    /\ documents' = UnmarshalDocuments(file.content)
    /\ lastUpdated' = UnmarshalLastUpdated(file.content)
    /\ obs' = [obs EXCEPT ![p].read = "read", ![p].kind = file.content.kind,
                          ![p].docs = documents, ![p].ts = lastUpdated]
    /\ ret' = [ret EXCEPT ![p] = [op |-> "Load", err |-> NoErr]]
    /\ addLog' = <<>>
    /\ Unlock(p)
    /\ UNCHANGED <<provider, args, loc, extVars>>

(***************************************************************************)
(* Clear()                                                                 *)
(***************************************************************************)
ClearCall(p) ==
    /\ pc[p] = Idle
    /\ Goto(p, "Clear", "lock")
    /\ args' = [args EXCEPT ![p] = [op |-> "Clear"]]
    /\ loc' = [loc EXCEPT ![p] = NoLoc]
    /\ obs' = [obs EXCEPT ![p] = NoObs]
    /\ ret' = [ret EXCEPT ![p] = NoRet]
    /\ UNCHANGED <<storeVars, lockVars, addLog, extVars>>

ClearedTimestampKept(ts) == ts
ClearedTimestamp(ts) == EmptyString

\* es.Documents = make([]EmbeddingDocument, 0); es.LastUpdated = ""
ClearReturn(p) ==
    /\ At(p, "Clear", "in")
    /\ documents' = <<>>
    /\ lastUpdated' = ClearedTimestamp(lastUpdated)
    /\ addLog' = <<>>
    /\ obs' = [obs EXCEPT ![p] =
                 [op |-> "Clear", docs |-> documents, ts |-> lastUpdated]]
    /\ ret' = [ret EXCEPT ![p] = [op |-> "Clear"]]
    /\ Unlock(p)
    /\ UNCHANGED <<provider, args, loc, extVars>>

(***************************************************************************)
(* IsStale(days).  A time.Duration is an int64 of nanoseconds; here it is  *)
(* a record [d, t] of whole days and ticks within the day, so that the     *)
(* product days * 24h can be followed through its wrap-around.             *)
(***************************************************************************)
TicksPerDay == 24 * 60 * 60 * TicksPerSecond

\* The largest n for which n * 24 * time.Hour fits a time.Duration:
\* 2^63 ns lie between 106751 and 106752 days.
Int64Days == 106751

Duration(ticks) == [d |-> ticks \div TicksPerDay, t |-> ticks % TicksPerDay]
DurationGt(a, b) == a.d > b.d \/ (a.d = b.d /\ a.t > b.t)

\* time.Duration(days) * 24 * time.Hour for days up to 2 * Int64Days + 1:
\* past Int64Days the product has wrapped by 2^64 ns, which is
\* 2 * Int64Days + 2 days less 1526 s and a fraction.
StaleThreshold(days) ==
    IF days > Int64Days
    THEN [d |-> days - (2 * Int64Days + 2), t |-> 1526 * TicksPerSecond]
    ELSE [d |-> days, t |-> 0]

\* time.Since(lastUpdate)
Since(t) == Duration(now - t)

\* The body of IsStale.
StaleAfter(ts, days) ==
    \/ ts = EmptyString
    \/ ~ParseRFC3339(ts).ok
    \/ DurationGt(Since(ParseRFC3339(ts).t), StaleThreshold(days))

IsStaleCall(p, days) ==
    /\ pc[p] = Idle
    /\ Goto(p, "IsStale", "rlock")
    /\ args' = [args EXCEPT ![p] = [op |-> "IsStale", days |-> days]]
    /\ loc' = [loc EXCEPT ![p] = NoLoc]
    /\ obs' = [obs EXCEPT ![p] = [op |-> "IsStale", after |-> ret[p].op]]
    /\ ret' = [ret EXCEPT ![p] = NoRet]
    /\ UNCHANGED <<storeVars, lockVars, addLog, extVars>>

IsStaleReturn(p) ==
    /\ At(p, "IsStale", "in")
    /\ ret' = [ret EXCEPT ![p] =
                 [op |-> "IsStale",
                  stale |-> StaleAfter(lastUpdated, args[p].days)]]
    /\ obs' = [obs EXCEPT ![p] =
                 [op |-> "IsStale", after |-> obs[p].after,
                  ts |-> lastUpdated, now |-> now]]
    /\ RUnlock(p)
    /\ UNCHANGED <<storeVars, args, loc, addLog, extVars>>

(***************************************************************************)
(* The backing file is not the store's alone: another program may leave a  *)
(* file at es.filePath.                                                    *)
(***************************************************************************)
OtherText == [form |-> "text", sec |-> 0]
ExternalFiles == {Truncated, Mistyped, Marshal(<<>>, OtherText)}

ExternalWrite(content) ==
    /\ (IF file.exists THEN file.content # content ELSE TRUE)
    /\ file' = [exists |-> TRUE, content |-> content]
    /\ saved' = [valid |-> FALSE]
    /\ UNCHANGED <<storeVars, lockVars, procVars, addLog, now, chunk,
                   auxVars>>

\* NewEmbeddingStore on the same file path: a fresh store, no call on it yet.
NewEmbeddingStore ==
    /\ \A p \in Procs : pc[p] = Idle
    /\ documents' = <<>>
    /\ lastUpdated' = EmptyString
    /\ provider' = "local"
    /\ args' = [p \in Procs |-> NoArgs]
    /\ loc' = [p \in Procs |-> NoLoc]
    /\ ret' = [p \in Procs |-> NoRet]
    /\ obs' = [p \in Procs |-> NoObs]
    /\ addLog' = <<>>
    /\ session' = SessionCreated
    /\ UNCHANGED <<lockVars, pc, file, now, saved, chunk, links, mcp>>

\* Time passes.
Tick ==
    /\ now % TicksPerDay < MaxClock
    /\ now' = now + 1
    /\ UNCHANGED <<storeVars, lockVars, procVars, addLog, file, saved, chunk,
                   auxVars>>

\* Days pass.
TickDays(n) ==
    /\ now \div TicksPerDay + n <= MaxDays
    /\ now' = now + n * TicksPerDay
    /\ UNCHANGED <<storeVars, lockVars, procVars, addLog, file, saved, chunk,
                   auxVars>>

(***************************************************************************)
(* Persistence: one caller adds documents, saves, constructs a fresh store *)
(* on the same path and loads.                                             *)
(***************************************************************************)
PersistDocs ==
    { Doc("d1", <<"a">>, <<F(2), F(0)>>, 0),
      Doc("d6", <<"a", InvalidByte>>, <<F(1)>>, 1),
      Doc("d5", <<"a">>, <<NaN, F(1)>>, 0) }

NextPersist ==
    \/ \E d \in PersistDocs : AddDocumentCall(SeqProc, d)
    \/ AddDocumentAppend(SeqProc)
    \/ AddDocumentReturn(SeqProc)
    \/ SaveCall(SeqProc)
    \/ SaveMarshalFailed(SeqProc)
    \/ SaveWriteFailed(SeqProc)
    \/ SaveReturn(SeqProc)
    \/ LoadCall(SeqProc)
    \/ LoadAbsent(SeqProc)
    \/ LoadReadFailed(SeqProc)
    \/ LoadUnmarshalFailed(SeqProc)
    \/ LoadReturn(SeqProc)
    \/ NewEmbeddingStore
    \/ Tick
    \/ Lock(SeqProc)
    \/ LockDrained(SeqProc)

SpecPersist == Init /\ [][NextPersist]_vars

LoadReturned(p) == pc[p] = Idle /\ ret[p].op = "Load"

\* The store was as NewEmbeddingStore leaves it when the call was made.
CalledOnFreshStore(p) == obs[p].docs = <<>> /\ obs[p].ts = EmptyString

\* C10: after a Save that succeeded, a Load on a fresh store with the same
\* path (the file readable) succeeds and leaves the store with the saved
\* document sequence - the same length and order, every document with the
\* same id, content, url, title, embedding and depth - and with the saved
\* lastUpdated, which parses as RFC3339.
C10_SaveLoadRoundTrip ==
    \A p \in Procs :
      ( /\ LoadReturned(p)
        /\ CalledOnFreshStore(p)
        /\ saved.valid
        /\ ret[p].err # ErrReadFile )
      => /\ ret[p].err = NoErr
         /\ documents = saved.docs
         /\ lastUpdated = saved.ts
         /\ ParseRFC3339(lastUpdated).ok

(***************************************************************************)
(* Staleness: one caller adds documents, saves, loads, clears and asks     *)
(* IsStale while time passes and the file changes under the store.         *)
(***************************************************************************)
StaleDocs == { Doc("d1", <<"a">>, <<F(2), F(0)>>, 0) }
StaleDays == {-1, 0, 7, Int64Days + 1}
DayJumps == {7}

NextStale ==
    \/ \E d \in StaleDocs : AddDocumentCall(SeqProc, d)
    \/ AddDocumentAppend(SeqProc)
    \/ AddDocumentReturn(SeqProc)
    \/ SaveCall(SeqProc)
    \/ SaveWriteFailed(SeqProc)
    \/ SaveReturn(SeqProc)
    \/ LoadCall(SeqProc)
    \/ LoadAbsent(SeqProc)
    \/ LoadReadFailed(SeqProc)
    \/ LoadUnmarshalFailed(SeqProc)
    \/ LoadReturn(SeqProc)
    \/ ClearCall(SeqProc)
    \/ ClearReturn(SeqProc)
    \/ \E days \in StaleDays : IsStaleCall(SeqProc, days)
    \/ IsStaleReturn(SeqProc)
    \/ \E content \in ExternalFiles : ExternalWrite(content)
    \/ Tick
    \/ \E n \in DayJumps : TickDays(n)
    \/ Lock(SeqProc)
    \/ LockDrained(SeqProc)
    \/ RLock(SeqProc)

SpecStale == Init /\ [][NextStale]_vars

IsStaleReturned(p) == pc[p] = Idle /\ ret[p].op = "IsStale"

\* maxAgeDays x 24h, as a number of days.
MaxAge(maxAgeDays) == [d |-> maxAgeDays, t |-> 0]

\* The time elapsed between the instant lastUpdated names and the call.
Elapsed(p) == Duration(obs[p].now - ParseRFC3339(obs[p].ts).t)

\* C13: IsStale(maxAgeDays) returns true if and only if lastUpdated is
\* empty, or does not parse as RFC3339, or the time elapsed since
\* lastUpdated is strictly greater than maxAgeDays x 24h.
C13_IsStaleIff ==
    \A p \in Procs :
      IsStaleReturned(p) =>
        ( ret[p].stale <=>
            \/ obs[p].ts = EmptyString
            \/ ~ParseRFC3339(obs[p].ts).ok
            \/ DurationGt(Elapsed(p), MaxAge(args[p].days)) )

ClearReturned(p) == pc[p] = Idle /\ ret[p].op = "Clear"

\* A step that stores a timestamp where there was none.
TimestampSet == lastUpdated = EmptyString /\ lastUpdated' # EmptyString

\* C14: when Clear has returned the store holds no documents and
\* lastUpdated is the empty string; only a Save or a Load stores a
\* timestamp again; and IsStale(d) is true for every d while it is empty.
C14_ClearResets ==
    /\ [](\A p \in Procs :
            /\ ClearReturned(p) =>
                 documents = <<>> /\ lastUpdated = EmptyString
            /\ (IsStaleReturned(p) /\ obs[p].ts = EmptyString) =>
                 ret[p].stale)
    /\ [][TimestampSet =>
            \E p \in Procs : pc[p] \in {<<"Save", "in">>, <<"Load", "in">>}
                             /\ pc'[p] = Idle]_vars

\* IsStale(7) has answered true on a store that was cleared less than 7
\* days after its last Save.
C14_Witness ==
    \E p \in Procs :
      /\ IsStaleReturned(p)
      /\ obs[p].after = "Clear"
      /\ args[p].days = 7
      /\ ret[p].stale
      /\ saved.valid
      /\ ~DurationGt(Duration(obs[p].now - ParseRFC3339(saved.ts).t),
                     MaxAge(7))

(***************************************************************************)
(* The life of a store: one caller uses every operation of the store in    *)
(* any order while the file changes under it.                              *)
(***************************************************************************)
LifeDocs ==
    { Doc("d1", <<"a">>, <<F(2), F(0)>>, 0),
      Doc("d5", <<"a">>, <<NaN, F(1)>>, 0) }
LifeDays == {0}

NextLife ==
    \/ \E d \in LifeDocs : AddDocumentCall(SeqProc, d)
    \/ AddDocumentAppend(SeqProc)
    \/ AddDocumentReturn(SeqProc)
    \/ SaveCall(SeqProc)
    \/ SaveMarshalFailed(SeqProc)
    \/ SaveWriteFailed(SeqProc)
    \/ SaveReturn(SeqProc)
    \/ LoadCall(SeqProc)
    \/ LoadAbsent(SeqProc)
    \/ LoadReadFailed(SeqProc)
    \/ LoadUnmarshalFailed(SeqProc)
    \/ LoadReturn(SeqProc)
    \/ ClearCall(SeqProc)
    \/ ClearReturn(SeqProc)
    \/ \E days \in LifeDays : IsStaleCall(SeqProc, days)
    \/ IsStaleReturn(SeqProc)
    \/ \E pr \in Providers : SetProviderCall(SeqProc, pr)
    \/ SetProviderReturn(SeqProc)
    \/ \E q \in ConcQueries, k \in ConcTopKs, th \in ConcThresholds :
         SearchCall(SeqProc, q, k, th)
    \/ SearchCheckEmpty(SeqProc)
    \/ SearchGotEmbedding(SeqProc)
    \/ SearchProviderFailed(SeqProc)
    \/ SearchScore(SeqProc)
    \/ \E content \in ExternalFiles : ExternalWrite(content)
    \/ Lock(SeqProc)
    \/ LockDrained(SeqProc)
    \/ RLock(SeqProc)

SpecLife == Init /\ [][NextLife]_vars

\* C11: Load on a path at which there is no file returns no error and
\* leaves the store holding zero documents, whatever it held before.
C11_LoadAbsentLeavesEmpty ==
    \A p \in Procs :
      (LoadReturned(p) /\ obs[p].read = ENOENT) =>
        ret[p].err = NoErr /\ Len(documents) = 0

\* Steps in which an operation returns.
Returns(p, op) == pc[p][1] = op /\ pc[p][2] \in {"in", "fill"} /\ pc'[p] = Idle
ClearStep == \E p \in Procs : Returns(p, "Clear")
LoadReadStep == \E p \in Procs : Returns(p, "Load") /\ obs'[p].read = "read"

\* The documents whose AddDocument has completed its append.
Stored ==
    IF \E p \in Procs : At(p, "AddDocument", "fill")
    THEN Len(documents) - 1
    ELSE Len(documents)

KeepsDocuments ==
    /\ Len(documents') >= Len(documents)
    /\ \A i \in 1..Stored : documents'[i] = documents[i]

AddPlacesLast ==
    \A p \in Procs :
      Returns(p, "AddDocument") =>
        /\ Len(documents') = Stored + 1
        /\ documents'[Len(documents')] = args[p].doc

\* C12: AddDocument places the new document after all existing ones, and
\* every step of every operation other than Clear keeps each stored
\* document at its position with all its field values.
C12_AppendOnly ==
    [][AddPlacesLast /\ (~ClearStep => KeepsDocuments)]_vars

\* C12 as amended: ... other than Clear and a Load that reads the file.
C12_AppendOnlyButLoad ==
    [][AddPlacesLast /\ (~ClearStep /\ ~LoadReadStep => KeepsDocuments)]_vars

\* Two documents are stored, the first of them added before a Save and a
\* Search ran, and the caller has just added the second.
C12_Witness ==
    /\ pc[SeqProc] = Idle
    /\ ret[SeqProc].op = "AddDocument"
    /\ Len(documents) = 2
    /\ documents[1] # documents[2]
    /\ saved.valid
    /\ Len(saved.docs) = 1
    /\ provider = "remote"

\* C20: Load returns an error when the file exists and is malformed, and
\* when the file cannot be read for a reason other than absence.
C20_LoadFails ==
    \A p \in Procs :
      LoadReturned(p) =>
        /\ (obs[p].read = "read" /\ obs[p].kind # "store") =>
             ret[p].err = ErrUnmarshal
        /\ obs[p].read = EACCES => ret[p].err = ErrReadFile

\* Load has failed on the file a failed Save left cut short.
C20_Witness ==
    \E p \in Procs :
      /\ LoadReturned(p)
      /\ obs[p].read = "read"
      /\ obs[p].kind = "truncated"
      /\ obs[p].docs # <<>>
      /\ ret[p].err = ErrUnmarshal

(***************************************************************************)
(* Swapping the provider under searches: callers add a document, search    *)
(* and call SetProvider concurrently.                                      *)
(***************************************************************************)
SwapDocs == { Doc("d1", <<"a">>, <<F(2), F(0)>>, 0) }

NextSwap ==
    \E p \in Procs :
      \/ \E d \in SwapDocs : AddDocumentCall(p, d)
      \/ AddDocumentAppend(p)
      \/ AddDocumentReturn(p)
      \/ \E pr \in Providers : SetProviderCall(p, pr)
      \/ SetProviderReturn(p)
      \/ \E q \in ConcQueries, k \in ConcTopKs, th \in ConcThresholds :
           SearchCall(p, q, k, th)
      \/ SearchCheckEmpty(p)
      \/ SearchGotEmbedding(p)
      \/ SearchProviderFailed(p)
      \/ SearchScore(p)
      \/ Lock(p)
      \/ LockDrained(p)
      \/ RLock(p)

SpecSwap == Init /\ [][NextSwap]_vars

\* p is inside Search, between es.mu.RLock() and the deferred RUnlock.
SearchHoldsLock(p) ==
    pc[p][1] = "Search" /\ pc[p][2] \in {"in", "embed", "score"}

\* C15: the provider does not change while a Search holds the lock, so a
\* SetProvider called meanwhile takes effect only after that Search has
\* returned and the provider a Search got its query embedding from is the
\* one that was set when it acquired the lock; the provider changes only as
\* a SetProvider returns, to that call's argument, so that a Search that
\* starts afterwards uses it.
C15_ProviderSwapAtLockBoundary ==
    /\ [](\A p \in Procs :
            At(p, "Search", "score") => obs[p].provider = provider)
    /\ [][/\ (\E p \in Procs : SearchHoldsLock(p)) => provider' = provider
          /\ \A q \in Procs :
               Returns(q, "SetProvider") => provider' = args[q].provider
          /\ provider' # provider =>
               \E q \in Procs : Returns(q, "SetProvider")]_vars

\* A Search has its query embedding from the old provider while a
\* SetProvider to the other provider waits for it to leave.
C15_Witness ==
    \E p, q \in Procs :
      /\ At(p, "Search", "score")
      /\ obs[p].provider = "local"
      /\ At(q, "SetProvider", "drain")
      /\ args[q].provider = "remote"
      /\ provider = "local"

(***************************************************************************)
(* What the caller of Search holds.  SearchResult{Document: doc} copies    *)
(* the struct of the range variable doc: the strings and the depth are     *)
(* copied by value, the Embedding field is a slice header that still       *)
(* points at the backing array of the stored document (element pos of      *)
(* es.Documents).  The caller then assigns to fields of a result.          *)
(***************************************************************************)
ResultFields == {"content", "depth", "embedding"}
WrittenString == <<"z">>
WrittenFloat == F(0)

\* es.Documents after results[k].Document.Embedding[j] = v
WriteThrough(docs, r, j, v) == [docs EXCEPT ![r.pos].embedding[j] = v]

CallerWrites(p, k, field) ==
    /\ pc[p] = Idle
    /\ ret[p].op = "Search"
    /\ k \in 1..Len(ret[p].results)
    /\ LET r == ret[p].results[k]
       IN  \/ /\ field = "content"
              /\ r.Document.content # WrittenString
              /\ ret' = [ret EXCEPT
                           ![p].results[k].Document.content = WrittenString]
              /\ UNCHANGED documents
           \/ /\ field = "depth"
              /\ r.Document.depth >= 0
              /\ ret' = [ret EXCEPT ![p].results[k].Document.depth = -1]
              /\ UNCHANGED documents
           \/ /\ field = "embedding"
              /\ \E j \in 1..Len(r.Document.embedding) :
                   /\ r.Document.embedding[j] # WrittenFloat
                   /\ ret' = [ret EXCEPT
                                ![p].results[k].Document.embedding[j] =
                                   WrittenFloat]
                   /\ documents' = WriteThrough(documents, r, j, WrittenFloat)
    /\ UNCHANGED <<lastUpdated, provider, lockVars, pc, args, loc, obs,
                   addLog, extVars>>

AliasDocs ==
    { Doc("d1", <<"a">>, <<F(2), F(0)>>, 0),
      Doc("d2", <<"b">>, <<F(1), F(1)>>, 1) }

NextAlias ==
    \/ \E d \in AliasDocs : AddDocumentCall(SeqProc, d)
    \/ AddDocumentAppend(SeqProc)
    \/ AddDocumentReturn(SeqProc)
    \/ \E q \in ConcQueries, k \in ConcTopKs, th \in ConcThresholds :
         SearchCall(SeqProc, q, k, th)
    \/ SearchCheckEmpty(SeqProc)
    \/ SearchGotEmbedding(SeqProc)
    \/ SearchProviderFailed(SeqProc)
    \/ SearchScore(SeqProc)
    \/ \E k \in 1..MaxDocs, field \in ResultFields :
         CallerWrites(SeqProc, k, field)
    \/ Lock(SeqProc)
    \/ LockDrained(SeqProc)
    \/ RLock(SeqProc)

SpecAlias == Init /\ [][NextAlias]_vars

\* A step in which a caller changes a field of a result it holds.
CallerWriteStep ==
    \E p \in Procs :
      /\ pc[p] = Idle /\ pc'[p] = Idle
      /\ ret[p].op = "Search" /\ ret'[p].op = "Search"
      /\ ret'[p] # ret[p]

\* C16: changing any field of a returned result, elements of its embedding
\* included, does not change the documents the store holds.
C16_ResultIsCopy == [][CallerWriteStep => documents' = documents]_vars

(***************************************************************************)
(* GetEmbeddingsBatch of the two bundled providers.  The backends are      *)
(* taken at their contract: the local pipeline answers with one vector per *)
(* input in input order; the remote API answers with one item per input,   *)
(* each carrying the index of its input, in any order, and rejects an      *)
(* empty input.                                                            *)
(***************************************************************************)
BatchTexts == UNION {[1..n -> Queries] : n \in 0..MaxBatch}

ResponseOrders(n) ==
    {f \in [1..n -> 1..n] : \A i, j \in 1..n : f[i] = f[j] => i = j}

\* result.Embeddings of lep.pipeline.RunPipeline(texts)
PipelineEmbeddings(texts) ==
    [i \in 1..Len(texts) |-> ProviderEmbedding("local", texts[i])]

\* embeddingResp.Data of a response that lists the items in the order f
ResponseData(texts, f) ==
    [k \in 1..Len(texts) |->
       [Embedding |-> ProviderEmbedding("remote", texts[f[k]]),
        Index |-> f[k] - 1]]

ErrEmptyResponse == "empty embedding response"
NilVector == <<>>

\* for _, item := range embeddingResp.Data {
\*     embeddings[item.Index] = item.Embedding }
RECURSIVE PlaceInOrder(_, _, _)
PlaceInOrder(embeddings, data, k) ==
    IF k > Len(data) THEN embeddings
    ELSE PlaceInOrder([embeddings EXCEPT ![k] = data[k].Embedding],
                      data, k + 1)
RECURSIVE PlaceByIndex(_, _, _)
PlaceByIndex(embeddings, data, k) ==
    IF k > Len(data) THEN embeddings
    ELSE PlaceByIndex(
           [embeddings EXCEPT ![data[k].Index + 1] = data[k].Embedding],
           data, k + 1)

IndexOutOfRange(data) ==
    \E k \in 1..Len(data) : data[k].Index + 1 \notin 1..Len(data)

BatchCall(p, pr, texts) ==
    /\ pc[p] = Idle
    /\ Goto(p, "GetEmbeddingsBatch", "request")
    /\ args' = [args EXCEPT ![p] =
                  [op |-> "GetEmbeddingsBatch", provider |-> pr,
                   texts |-> texts]]
    /\ loc' = [loc EXCEPT ![p] = NoLoc]
    /\ obs' = [obs EXCEPT ![p] = NoObs]
    /\ ret' = [ret EXCEPT ![p] = NoRet]
    /\ UNCHANGED <<storeVars, lockVars, addLog, extVars>>

\* The backend answers with vectors.
BatchResponse(p) ==
    /\ At(p, "GetEmbeddingsBatch", "request")
    /\ LET texts == args[p].texts
       IN  IF args[p].provider = "local"
           THEN loc' = [loc EXCEPT ![p] =
                          [op |-> "GetEmbeddingsBatch",
                           data |-> PipelineEmbeddings(texts)]]
           ELSE /\ Len(texts) > 0
                /\ \E f \in ResponseOrders(Len(texts)) :
                     loc' = [loc EXCEPT ![p] =
                               [op |-> "GetEmbeddingsBatch",
                                data |-> ResponseData(texts, f)]]
    /\ Goto(p, "GetEmbeddingsBatch", "response")
    /\ UNCHANGED <<storeVars, lockVars, args, ret, obs, addLog, extVars>>

\* The backend fails, or answers with an error payload: return nil, err
BatchFailed(p) ==
    /\ At(p, "GetEmbeddingsBatch", "request")
    /\ \E e \in ProviderErrors(args[p].provider) :
         ret' = [ret EXCEPT ![p] =
                   [op |-> "GetEmbeddingsBatch", vectors |-> <<>>,
                    err |-> e, panic |-> FALSE]]
    /\ pc' = [pc EXCEPT ![p] = Idle]
    /\ UNCHANGED <<storeVars, lockVars, args, loc, obs, addLog, extVars>>

\* The rest of GetEmbeddingsBatch, the response decoded.
BatchReturn(p) ==
    /\ At(p, "GetEmbeddingsBatch", "response")
    /\ LET data == loc[p].data
       IN  ret' = [ret EXCEPT ![p] =
             IF args[p].provider = "local"
             THEN [op |-> "GetEmbeddingsBatch", vectors |-> data,
                   err |-> NoErr, panic |-> FALSE]
             ELSE IF Len(data) = 0
             THEN [op |-> "GetEmbeddingsBatch", vectors |-> <<>>,
                   err |-> ErrEmptyResponse, panic |-> FALSE]
             ELSE IF IndexOutOfRange(data)
             THEN [op |-> "GetEmbeddingsBatch", vectors |-> <<>>,
                   err |-> NoErr, panic |-> TRUE]
             ELSE [op |-> "GetEmbeddingsBatch",
                   vectors |->
                     PlaceByIndex([i \in 1..Len(data) |-> NilVector],
                                  data, 1),
                   err |-> NoErr, panic |-> FALSE]]
    /\ pc' = [pc EXCEPT ![p] = Idle]
    /\ UNCHANGED <<storeVars, lockVars, args, loc, obs, addLog, extVars>>

NextBatch ==
    \/ \E pr \in Providers, texts \in BatchTexts :
         BatchCall(SeqProc, pr, texts)
    \/ BatchResponse(SeqProc)
    \/ BatchFailed(SeqProc)
    \/ BatchReturn(SeqProc)

SpecBatch == Init /\ [][NextBatch]_vars

BatchReturned(p) == pc[p] = Idle /\ ret[p].op = "GetEmbeddingsBatch"

ChunkTextDone == chunk.pc = "done"
OverlapBelowSize == 0 <= chunk.overlap /\ chunk.overlap < chunk.chunkSize

\* The words of the k-th chunk returned, and the index (from 0) of the
\* word of the text the claim places its start at.
ChunkWords(k) == Fields(chunk.chunks[k])
ChunkStart(k) == (k - 1) * (chunk.chunkSize - chunk.overlap)
ChunkEnd(k) == ChunkStart(k) + Len(ChunkWords(k))
LastWords(ws, m) == SubSeq(ws, Len(ws) - m + 1, Len(ws))

\* C18: for 0 <= overlap < chunkSize the k-th chunk (from 0) is made of the
\* words of the normalized text from index k*(chunkSize-overlap) on, joined
\* by single spaces; every chunk but the last has chunkSize words; every
\* chunk after the first begins with the last overlap words of the chunk
\* before it; ChunkText("a b c d e", 3, 1) is ["a b c", "c d e"].
C18_ChunkWindows ==
    (ChunkTextDone /\ OverlapBelowSize) =>
      /\ \A k \in 1..Len(chunk.chunks) :
           /\ ChunkEnd(k) <= Len(chunk.words)
           /\ ChunkWords(k) =
                SubSeq(chunk.words, ChunkStart(k) + 1, ChunkEnd(k))
           /\ chunk.chunks[k] = Join(ChunkWords(k))
           /\ k < Len(chunk.chunks) => Len(ChunkWords(k)) = chunk.chunkSize
           /\ k > 1 =>
                /\ Len(ChunkWords(k)) >= chunk.overlap
                /\ SubSeq(ChunkWords(k), 1, chunk.overlap) =
                     LastWords(ChunkWords(k - 1), chunk.overlap)
      /\ (chunk.text = ExampleText /\ chunk.chunkSize = 3
          /\ chunk.overlap = 1) =>
           chunk.chunks = << <<"a", " ", "b", " ", "c">>,
                             <<"c", " ", "d", " ", "e">> >>

\* Three chunks of two words, each sharing a word with the one before.
C18_Witness ==
    /\ ChunkTextDone
    /\ chunk.chunkSize = 2
    /\ chunk.overlap = 1
    /\ Len(chunk.chunks) = 3
    /\ chunk.words = << <<"a">>, <<"b">>, <<"a">>, <<"a">> >>

\* C19: for 0 <= overlap < chunkSize and a text with words, every word of
\* the text is in a chunk, the last chunk ends with the last word and no
\* other chunk does; a text without words gives no chunks and no error.
C19_ChunkCoverage ==
    ChunkTextDone =>
      /\ (OverlapBelowSize /\ Len(chunk.words) > 0) =>
           /\ \A j \in 1..Len(chunk.words) :
                \E k \in 1..Len(chunk.chunks) :
                  /\ ChunkStart(k) < j /\ j <= ChunkEnd(k)
                  /\ ChunkWords(k)[j - ChunkStart(k)] = chunk.words[j]
           /\ Len(chunk.chunks) > 0
           /\ {k \in 1..Len(chunk.chunks) : ChunkEnd(k) = Len(chunk.words)}
                = {Len(chunk.chunks)}
           /\ LastWords(ChunkWords(Len(chunk.chunks)), 1) =
                LastWords(chunk.words, 1)
      /\ Len(chunk.words) = 0 => chunk.chunks = <<>>

\* The window has reached the last word with a step left over: the next
\* window would lie inside the last chunk.
C19_Witness ==
    /\ ChunkTextDone
    /\ chunk.chunkSize = 3
    /\ chunk.overlap = 2
    /\ Len(chunk.words) = 4
    /\ Len(chunk.chunks) = 2

(***************************************************************************)
(* Destroy().  It takes no lock and leaves es.session as it is.            *)
(***************************************************************************)
Destroy(p) ==
    /\ pc[p] = Idle
    /\ session.destroyCalls < MaxDestroys
    /\ session' = IF session.set
                  THEN [session EXCEPT !.live = FALSE,
                                       !.destroyCalls = @ + 1]
                  ELSE session
    /\ ret' = [ret EXCEPT ![p] = [op |-> "Destroy"]]
    /\ UNCHANGED <<storeVars, lockVars, pc, args, loc, obs, addLog,
                   file, now, saved, chunk, links, mcp>>

NextDestroy ==
    \/ \E d \in StaleDocs : AddDocumentCall(SeqProc, d)
    \/ AddDocumentAppend(SeqProc)
    \/ AddDocumentReturn(SeqProc)
    \/ SaveCall(SeqProc)
    \/ SaveWriteFailed(SeqProc)
    \/ SaveReturn(SeqProc)
    \/ Destroy(SeqProc)
    \/ Lock(SeqProc)
    \/ LockDrained(SeqProc)

SpecDestroy == Init /\ [][NextDestroy]_vars

\* C21: over any number of Destroy calls on one store the session's
\* Destroy is invoked once: a second or later call does nothing.
C21_DestroyReleasesOnce == session.destroyCalls <= 1

(***************************************************************************)
(* ExtractLinks(content, baseURL).  A compiled pattern is a sequence of    *)
(* elements, each a literal character or "any character"; the class        *)
(* [a-zA-Z0-9\-]+ that follows the prefix is matched greedily.             *)
(***************************************************************************)
LinkAlphabet == {"a", "-", ".", "/"}
Contents == SeqsUpTo(LinkAlphabet, MaxContentLen)
Prefixes == SeqsUpTo({"a", ".", "/"}, MaxPrefixLen)

\* [a-zA-Z0-9\-]
InLinkClass(c) == c \in {"a", "b", "c", "z", "A", "Z", "0", "9", "-"}

\* regexp.MustCompile(baseURL + ...) had the prefix not been escaped:
\* '.' stands for any character.
Unquoted(base) ==
    [k \in 1..Len(base) |-> [any |-> base[k] = ".", c |-> base[k]]]
\* regexp.QuoteMeta(baseURL): every character stands for itself.
QuoteMeta(base) == [k \in 1..Len(base) |-> [any |-> FALSE, c |-> base[k]]]

PrefixMatchesAt(content, i, pat) ==
    /\ i + Len(pat) - 1 <= Len(content)
    /\ \A k \in 1..Len(pat) : pat[k].any \/ content[i + k - 1] = pat[k].c

\* The length of the longest run of class characters that starts at j.
RECURSIVE ClassRun(_, _)
ClassRun(content, j) ==
    IF j > Len(content) \/ ~InLinkClass(content[j]) THEN 0
    ELSE 1 + ClassRun(content, j + 1)

\* re.FindAllString(content, -1): the leftmost match, then the leftmost
\* match after its end, and so on.
RECURSIVE FindAllFrom(_, _, _)
FindAllFrom(content, pat, i) ==
    IF i > Len(content) THEN <<>>
    ELSE LET run == IF PrefixMatchesAt(content, i, pat)
                    THEN ClassRun(content, i + Len(pat)) ELSE 0
         IN  IF run > 0
             THEN <<[at |-> i,
                     str |-> SubSeq(content, i, i + Len(pat) + run - 1)]>>
                  \o FindAllFrom(content, pat, i + Len(pat) + run)
             ELSE FindAllFrom(content, pat, i + 1)

ExtractLinksCall(content, baseURL) ==
    /\ links.pc = "none"
    /\ links' = [pc |-> "dedupe", content |-> content, baseURL |-> baseURL,
                 matches |-> FindAllFrom(content, QuoteMeta(baseURL), 1),
                 k |-> 1, seen |-> {}, links |-> <<>>]
    /\ UNCHANGED <<storeVars, lockVars, procVars, addLog, file, now, saved,
                   chunk, session, mcp>>

\* One pass of for _, match := range matches, or return links.
ExtractLinksLoop ==
    /\ links.pc = "dedupe"
    /\ IF links.k > Len(links.matches)
       THEN links' = [links EXCEPT !.pc = "done"]
       ELSE LET match == links.matches[links.k].str
            IN  IF match \notin links.seen
                THEN links' = [links EXCEPT !.seen = @ \cup {match},
                                            !.links = Append(@, match),
                                            !.k = @ + 1]
                ELSE links' = [links EXCEPT !.k = @ + 1]
    /\ UNCHANGED <<storeVars, lockVars, procVars, addLog, file, now, saved,
                   chunk, session, mcp>>

NextLinks ==
    \/ /\ links.pc = "none"
       /\ \E content \in Contents, baseURL \in Prefixes :
            ExtractLinksCall(content, baseURL)
    \/ ExtractLinksLoop

SpecLinks == Init /\ [][NextLinks]_vars

\* The index in matches of the first match equal to str.
FirstMatch(str) ==
    CHOOSE k \in 1..Len(links.matches) :
      /\ links.matches[k].str = str
      /\ \A j \in 1..(k - 1) : links.matches[j].str # str

\* str is basePrefix itself followed by one or more class characters.
IsLink(str, base) ==
    /\ Len(str) > Len(base)
    /\ SubSeq(str, 1, Len(base)) = base
    /\ \A k \in (Len(base) + 1)..Len(str) : InLinkClass(str[k])

\* C22: ExtractLinks returns each distinct match once, in the order of the
\* first occurrences, and every returned string is the literal basePrefix
\* followed by one or more characters of [A-Za-z0-9-], as it stands in
\* content.
C22_ExtractLinks ==
    links.pc = "done" =>
      /\ \A i, j \in 1..Len(links.links) :
           i < j => /\ links.links[i] # links.links[j]
                    /\ FirstMatch(links.links[i]) < FirstMatch(links.links[j])
      /\ {links.links[i] : i \in 1..Len(links.links)} =
           {links.matches[k].str : k \in 1..Len(links.matches)}
      /\ \A i \in 1..Len(links.links) : IsLink(links.links[i], links.baseURL)
      /\ \A k \in 1..Len(links.matches) :
           LET m == links.matches[k]
           IN  SubSeq(links.content, m.at, m.at + Len(m.str) - 1) = m.str

\* Three matches of a prefix with a '.', the third a repeat of the first,
\* have given two links.
C22_Witness ==
    /\ links.pc = "done"
    /\ links.baseURL = <<".">>
    /\ links.content = <<".", "a", ".", "-", ".", "a">>
    /\ links.links = << <<".", "a">>, <<".", "-">> >>

(***************************************************************************)
(* The lock of the store: callers add, clear, save, load, search and ask   *)
(* for staleness concurrently.                                             *)
(***************************************************************************)
LockDocs == { Doc("d1", <<"a">>, <<F(2), F(0)>>, 0) }
LockDays == {0}
LockProcs == {"p1", "p2"}

\* The Load calls that have not returned.
PendingLoads == {q \in Procs : pc[q][1] = "Load"}

\* Two callers use every operation and a third one asks for staleness.  A
\* Load is not started while an AddDocument is under way, nor the other way
\* round, so that the reloaded store stays within MaxLockDocs.
NextLock ==
    \/ \E p \in LockProcs :
         \/ /\ Len(documents) + Cardinality(PendingAdds) < MaxLockDocs
            /\ PendingLoads = {}
            /\ \E d \in LockDocs : AddDocumentCall(p, d)
         \/ ClearCall(p)
         \/ SaveCall(p)
         \/ PendingAdds = {} /\ LoadCall(p)
         \/ \E q \in ConcQueries, k \in ConcTopKs, th \in ConcThresholds :
              SearchCall(p, q, k, th)
    \/ \E p \in Procs :
         \/ AddDocumentAppend(p)
         \/ AddDocumentReturn(p)
         \/ ClearReturn(p)
         \/ SaveReturn(p)
         \/ LoadAbsent(p)
         \/ LoadReturn(p)
         \/ \E days \in LockDays : IsStaleCall(p, days)
         \/ IsStaleReturn(p)
         \/ SearchCheckEmpty(p)
         \/ SearchGotEmbedding(p)
         \/ SearchProviderFailed(p)
         \/ SearchScore(p)
         \/ Lock(p)
         \/ LockDrained(p)
         \/ RLock(p)

SpecLock == Init /\ [][NextLock]_vars

\* p is between es.mu.Lock() and the deferred Unlock.
HoldsExclusive(p) ==
    /\ pc[p][1] \in {"AddDocument", "Clear", "Save", "Load", "SetProvider"}
    /\ pc[p][2] \in {"in", "fill"}

\* p is between es.mu.RLock() and the deferred RUnlock.
HoldsShared(p) ==
    /\ pc[p][1] \in {"Search", "IsStale"}
    /\ pc[p][2] \in {"in", "embed", "score"}

\* The step is one of p's, made inside operation op.
StepOf(p, op) == pc[p][1] = op /\ pc'[p] # pc[p]

\* The step reads the documents or the timestamp for p's Search or IsStale:
\* these are the steps that leave what they read in obs[p] or return.
ReadStep(p) ==
    /\ pc[p][1] \in {"Search", "IsStale"}
    /\ pc[p][2] \notin {"rlock", "rwait"}
    /\ pc'[p] # pc[p]

\* C23: at most one caller holds the exclusive lock and none holds it while
\* a caller holds the shared lock; the documents and the timestamp are
\* written only by a step of a Load, Save, AddDocument or Clear that holds
\* the exclusive lock, and Search and IsStale read them only while holding
\* the shared lock.
C23_LockDiscipline ==
    /\ [](/\ \A p, q \in Procs :
               HoldsExclusive(p) /\ HoldsExclusive(q) => p = q
          /\ \A p, q \in Procs : ~(HoldsExclusive(p) /\ HoldsShared(q)))
    /\ [][/\ <<documents, lastUpdated>>' # <<documents, lastUpdated>> =>
               \E p \in Procs :
                 /\ HoldsExclusive(p)
                 /\ \E op \in {"Load", "Save", "AddDocument", "Clear"} :
                      StepOf(p, op)
          /\ \A p \in Procs :
               ReadStep(p) =>
                 /\ HoldsShared(p)
                 /\ \A q \in Procs : ~HoldsExclusive(q)]_vars

\* A Save holds the exclusive lock while an AddDocument waits for it and an
\* IsStale waits to be admitted as a reader.
C23_Witness ==
    \E p, q, r \in Procs :
      /\ At(p, "Save", "in")
      /\ At(q, "AddDocument", "lock")
      /\ At(r, "IsStale", "rwait")

\* C24: a Search scores the store as it was when it checked it for
\* emptiness: no AddDocument, Clear or Load changes the documents while a
\* Search is between its lock and its return, so the documents it scored are
\* those it checked.
C24_SearchSnapshot ==
    /\ [](\A p \in Procs :
            /\ At(p, "Search", "embed") \/ At(p, "Search", "score") =>
                 obs[p].docs = documents
            /\ SearchScored(p) => obs[p].docsAtEnd = obs[p].docs)
    /\ [][(\E p \in Procs : SearchHoldsLock(p)) =>
            documents' = documents]_vars

\* A Search has its query embedding and is about to score a store that is
\* not empty while a Clear waits for it to leave.
C24_Witness ==
    \E p, q \in Procs :
      /\ At(p, "Search", "score")
      /\ At(q, "Clear", "drain")
      /\ Len(documents) > 0

(***************************************************************************)
(* The store's GetEmbedding(ctx, text) and GetEmbeddingsBatch(ctx, texts)  *)
(* called directly: es.provider is read for the nil check and again for    *)
(* the call, and neither method takes es.mu.                               *)
(***************************************************************************)
StoreGetEmbedding == "EmbeddingStore.GetEmbedding"
StoreGetEmbeddingsBatch == "EmbeddingStore.GetEmbeddingsBatch"
StoreProviderOps == {StoreGetEmbedding, StoreGetEmbeddingsBatch}

\* An interface value read while it is being written: the type word of one
\* provider and the data word of the other.
TornProvider == "torn"

\* What a read of es.provider made without the lock can find: the field as
\* it is or, while a SetProvider is writing it, also the value being written
\* or a mixture of the two.
ProviderReadUnlocked ==
    {provider} \cup
    UNION { {args[q].provider, TornProvider} :
              q \in {r \in Procs : /\ At(r, "SetProvider", "in")
                                   /\ args[r].provider # provider} }

StoreGetEmbeddingCall(p, op, text) ==
    /\ pc[p] = Idle
    /\ Goto(p, op, "check")
    /\ args' = [args EXCEPT ![p] = [op |-> op, text |-> text]]
    /\ loc' = [loc EXCEPT ![p] = NoLoc]
    /\ obs' = [obs EXCEPT ![p] = NoObs]
    /\ ret' = [ret EXCEPT ![p] = NoRet]
    /\ UNCHANGED <<storeVars, lockVars, addLog, extVars>>

\* if es.provider == nil { return nil, fmt.Errorf(...) }
StoreGetEmbeddingCheck(p) ==
    /\ pc[p][1] \in StoreProviderOps
    /\ pc[p][2] = "check"
    /\ \E pr \in ProviderReadUnlocked :
         IF pr = NilProvider
         THEN /\ ret' = [ret EXCEPT ![p] =
                           [op |-> pc[p][1], vectors |-> <<>>,
                            err |-> ErrProviderNotInitialized,
                            panic |-> FALSE]]
              /\ pc' = [pc EXCEPT ![p] = Idle]
         ELSE /\ Goto(p, pc[p][1], "call")
              /\ UNCHANGED ret
    /\ UNCHANGED <<storeVars, lockVars, args, loc, obs, addLog, extVars>>

\* return es.provider.GetEmbedding(text): the field is read again; a method
\* called on a nil or torn interface value panics.
StoreGetEmbeddingReturn(p) ==
    /\ pc[p][1] \in StoreProviderOps
    /\ pc[p][2] = "call"
    /\ \E pr \in ProviderReadUnlocked :
         ret' = [ret EXCEPT ![p] =
                   IF pr \in {NilProvider, TornProvider}
                   THEN [op |-> pc[p][1], vectors |-> <<>>, err |-> NoErr,
                         panic |-> TRUE]
                   ELSE [op |-> pc[p][1],
                         vectors |-> <<ProviderEmbedding(pr, args[p].text)>>,
                         err |-> NoErr, panic |-> FALSE]]
    /\ pc' = [pc EXCEPT ![p] = Idle]
    /\ UNCHANGED <<storeVars, lockVars, args, loc, obs, addLog, extVars>>

(***************************************************************************)
(* Callers set the provider, search and ask the store for embeddings       *)
(* concurrently.                                                           *)
(***************************************************************************)
NextProvider ==
    \E p \in Procs :
      \/ /\ Len(documents) + Cardinality(PendingAdds) < MaxLockDocs
         /\ \E d \in LockDocs : AddDocumentCall(p, d)
      \/ AddDocumentAppend(p)
      \/ AddDocumentReturn(p)
      \/ \E pr \in Providers \cup {NilProvider} : SetProviderCall(p, pr)
      \/ SetProviderReturn(p)
      \/ \E q \in ConcQueries, k \in ConcTopKs, th \in ConcThresholds :
           SearchCall(p, q, k, th)
      \/ SearchCheckEmpty(p)
      \/ SearchNoProvider(p)
      \/ SearchGotEmbedding(p)
      \/ SearchScore(p)
      \/ \E op \in StoreProviderOps, text \in ConcQueries :
           StoreGetEmbeddingCall(p, op, text)
      \/ StoreGetEmbeddingCheck(p)
      \/ StoreGetEmbeddingReturn(p)
      \/ Lock(p)
      \/ LockDrained(p)
      \/ RLock(p)

SpecProvider == Init /\ [][NextProvider]_vars

\* p is at a statement that reads es.provider.
ReadsProvider(p) ==
    \/ At(p, "Search", "embed")
    \/ pc[p][1] \in StoreProviderOps

\* C25: a caller that is about to read the store's provider holds the
\* store's lock, in Search and in a direct GetEmbedding or
\* GetEmbeddingsBatch alike, so that no SetProvider is writing the provider
\* meanwhile.
C25_ProviderReadUnderLock ==
    \A p \in Procs :
      ReadsProvider(p) =>
        /\ HoldsShared(p)
        /\ \A q \in Procs : ~HoldsExclusive(q)

\* p's last call was a Save that returned an error.
SaveFailed(p) == pc[p] = Idle /\ ret[p].op = "Save" /\ ret[p].err # NoErr

\* C26: after a Save that failed to marshal or to write the file, the
\* timestamp in memory is the one the store had when Save was called.
C26_FailedSaveKeepsTimestamp ==
    \A p \in Procs : SaveFailed(p) => lastUpdated = obs[p].ts

\* p's last call was a Load that returned an error.
LoadFailed(p) == pc[p] = Idle /\ ret[p].op = "Load" /\ ret[p].err # NoErr

\* C27: after a Load that returned an error, the documents and the
\* timestamp in memory are those the store had when Load was called.
C27_FailedLoadKeepsStore ==
    \A p \in Procs :
      LoadFailed(p) => documents = obs[p].docs /\ lastUpdated = obs[p].ts

(***************************************************************************)
(* Progress.  The scheduler lets every caller that can take a step take    *)
(* it; a provider that was called answers or fails; a caller blocked in    *)
(* es.mu.Lock() behind other writers gets the mutex in the end, which is   *)
(* what the hand-off of a sync.Mutex to its longest waiter ensures.        *)
(***************************************************************************)
FairProcs == {"p1", "p2"}
FairDocs == { Doc("d1", <<"a">>, <<F(2), F(0)>>, 0) }
FairProviders == {"remote"}

\* The calls the callers make: one caller searches, adds documents and sets
\* the provider, the other clears, saves and loads, and both ask for
\* staleness.
FairCall(p) ==
    \/ /\ p = "p1"
       /\ \/ /\ Len(documents) + Cardinality(PendingAdds) < MaxLockDocs
             /\ PendingLoads = {}
             /\ \E d \in FairDocs : AddDocumentCall(p, d)
          \/ \E pr \in FairProviders : SetProviderCall(p, pr)
          \/ \E q \in ConcQueries, k \in ConcTopKs, th \in ConcThresholds :
               SearchCall(p, q, k, th)
    \/ /\ p = "p2"
       /\ \/ ClearCall(p)
          \/ SaveCall(p)
          \/ PendingAdds = {} /\ LoadCall(p)
    \/ \E days \in LockDays : IsStaleCall(p, days)

\* The steps of a call that depend on the caller being scheduled and, for
\* LockDrained, on the readers having left.
CallerStep(p) ==
    \/ AddDocumentAppend(p)
    \/ AddDocumentReturn(p)
    \/ ClearReturn(p)
    \/ SaveReturn(p)
    \/ LoadAbsent(p)
    \/ LoadReturn(p)
    \/ SetProviderReturn(p)
    \/ IsStaleReturn(p)
    \/ SearchCheckEmpty(p)
    \/ SearchScore(p)
    \/ LockDrained(p)
    \/ RLock(p)

\* The provider returns to the Search that called it.
ProviderReturns(p) ==
    \/ SearchGotEmbedding(p)
    \/ SearchProviderFailed(p)

NextFair ==
    \E p \in FairProcs :
      \/ FairCall(p)
      \/ CallerStep(p)
      \/ ProviderReturns(p)
      \/ Lock(p)

SpecFair ==
    /\ Init
    /\ [][NextFair]_vars
    /\ \A p \in FairProcs :
         /\ WF_vars(CallerStep(p))
         /\ WF_vars(ProviderReturns(p))
         /\ SF_vars(Lock(p))

\* C28: under fair scheduling and with a provider that returns, every call
\* to Search, IsStale, AddDocument, Clear, Save, Load and SetProvider
\* returns, whatever the other caller does meanwhile.
C28_EveryCallReturns ==
    \A p \in FairProcs : (pc[p] # Idle) ~> (pc[p] = Idle)

\* A writer has announced itself and waits for a Search that is inside its
\* provider call to leave.
C28_Witness ==
    \E p, q \in FairProcs :
      /\ At(p, "Search", "embed")
      /\ pc[q][1] \in {"AddDocument", "Clear", "Save", "Load", "SetProvider"}
      /\ pc[q][2] = "drain"
      /\ wMutex = q

(***************************************************************************)
(* The remote provider's GetEmbeddingsBatch against a backend that may     *)
(* answer anything that decodes into an embeddingResponse: any number of   *)
(* items, each with any index and with or without a vector.                *)
(***************************************************************************)
ResponseIndexes == -1..MaxBatch
ResponseItems ==
    [Embedding : {ProviderEmbedding("remote", t) : t \in Queries}
                   \cup {NilVector},
     Index : ResponseIndexes]
AnyResponseData == UNION {[1..n -> ResponseItems] : n \in 0..MaxBatch}

\* json.Unmarshal(respBody, &embeddingResp) succeeds, with no error payload.
BatchResponseAny(p) ==
    /\ At(p, "GetEmbeddingsBatch", "request")
    /\ args[p].provider = "remote"
    /\ \E data \in AnyResponseData :
         loc' = [loc EXCEPT ![p] =
                   [op |-> "GetEmbeddingsBatch", data |-> data]]
    /\ Goto(p, "GetEmbeddingsBatch", "response")
    /\ UNCHANGED <<storeVars, lockVars, args, ret, obs, addLog, extVars>>

NextBatchAny ==
    \/ /\ pc[SeqProc] = Idle
       /\ \E texts \in BatchTexts : BatchCall(SeqProc, "remote", texts)
    \/ BatchResponseAny(SeqProc)
    \/ BatchFailed(SeqProc)
    \/ BatchReturn(SeqProc)

SpecBatchAny == Init /\ [][NextBatchAny]_vars

\* The response holds exactly one vector, and not an empty one, for each
\* index 0..len(texts)-1.
OneVectorPerIndex(data, texts) ==
    /\ Len(data) = Len(texts)
    /\ \A i \in 0..(Len(texts) - 1) :
         Cardinality({k \in 1..Len(data) : data[k].Index = i}) = 1
    /\ \A k \in 1..Len(data) : data[k].Embedding # NilVector

\* C29: when the response does not hold exactly one non-empty vector for
\* each index 0..len(texts)-1, the remote GetEmbeddingsBatch returns an
\* error: it does not panic and returns no result with a missing vector.
C29_MalformedResponseRejected ==
    \A p \in Procs :
      ( /\ BatchReturned(p)
        /\ args[p].provider = "remote"
        /\ loc[p].op = "GetEmbeddingsBatch"
        /\ ~OneVectorPerIndex(loc[p].data, args[p].texts) ) =>
        /\ ~ret[p].panic
        /\ ret[p].err # NoErr

(***************************************************************************)
(* MCPClient: Close, ListTools and CallTool called concurrently on one     *)
(* connected client.  The stages of a call are "mlock" (before c.mu.Lock), *)
(* "min" (holding it), "mrlock" (before c.mu.RLock), "msnap" (holding it)  *)
(* and "request" (about to call the session the call copied).              *)
(***************************************************************************)
ErrNotConnected == "mcp session is not connected"
ErrSessionClosed == "connection closed"
MCPOps == {"ListTools", "CallTool"}

MCPFrame ==
    UNCHANGED <<storeVars, lockVars, addLog, file, now, saved, chunk,
                session, links>>

CloseCall(p) ==
    /\ pc[p] = Idle
    /\ Goto(p, "Close", "mlock")
    /\ args' = [args EXCEPT ![p] = [op |-> "Close"]]
    /\ loc' = [loc EXCEPT ![p] = NoLoc]
    /\ obs' = [obs EXCEPT ![p] = NoObs]
    /\ ret' = [ret EXCEPT ![p] = NoRet]
    /\ UNCHANGED mcp
    /\ MCPFrame

\* c.mu.Lock()
CloseLock(p) ==
    /\ At(p, "Close", "mlock")
    /\ mcp.writer = NoProc
    /\ mcp.readers = {}
    /\ mcp' = [mcp EXCEPT !.writer = p]
    /\ Goto(p, "Close", "min")
    /\ UNCHANGED <<args, loc, ret, obs>>
    /\ MCPFrame

\* if c.session == nil { return nil }; err := c.session.Close();
\* c.session = nil; c.client = nil; return err, with the deferred Unlock
CloseReturn(p) ==
    /\ At(p, "Close", "min")
    /\ mcp' = IF mcp.session = "nil"
              THEN [mcp EXCEPT !.writer = NoProc]
              ELSE [mcp EXCEPT !.writer = NoProc, !.session = "nil",
                               !.conn = "closed", !.closeCalls = @ + 1]
    /\ ret' = [ret EXCEPT ![p] =
                 [op |-> "Close", err |-> NoErr,
                  closed |-> mcp.session # "nil"]]
    /\ pc' = [pc EXCEPT ![p] = Idle]
    /\ UNCHANGED <<args, loc, obs>>
    /\ MCPFrame

MCPCall(p, op) ==
    /\ pc[p] = Idle
    /\ Goto(p, op, "mrlock")
    /\ args' = [args EXCEPT ![p] = [op |-> op]]
    /\ loc' = [loc EXCEPT ![p] = [op |-> op, session |-> "nil", page |-> 0]]
    /\ obs' = [obs EXCEPT ![p] =
                 [op |-> op, closedAtCall |-> mcp.conn = "closed"]]
    /\ ret' = [ret EXCEPT ![p] = NoRet]
    /\ UNCHANGED mcp
    /\ MCPFrame

\* c.mu.RLock()
MCPRLock(p) ==
    /\ pc[p][1] \in MCPOps
    /\ pc[p][2] = "mrlock"
    /\ mcp.writer = NoProc
    /\ mcp' = [mcp EXCEPT !.readers = @ \cup {p}]
    /\ Goto(p, pc[p][1], "msnap")
    /\ UNCHANGED <<args, loc, ret, obs>>
    /\ MCPFrame

\* session := c.session; c.mu.RUnlock();
\* if session == nil { return nil, errors.New(...) }
MCPSnapshot(p) ==
    /\ pc[p][1] \in MCPOps
    /\ pc[p][2] = "msnap"
    /\ mcp' = [mcp EXCEPT !.readers = @ \ {p}]
    /\ loc' = [loc EXCEPT ![p].session = mcp.session]
    /\ IF mcp.session = "nil"
       THEN /\ ret' = [ret EXCEPT ![p] =
                         [op |-> pc[p][1], err |-> ErrNotConnected]]
            /\ pc' = [pc EXCEPT ![p] = Idle]
       ELSE /\ Goto(p, pc[p][1], "request")
            /\ UNCHANGED ret
    /\ UNCHANGED <<args, obs>>
    /\ MCPFrame

\* The copy of the session is used although the session is closed.
RequestsClosedSession(p) == loc[p].session = "set" /\ mcp.conn = "closed"

\* session.ListTools(ctx, ...) or session.CallTool(ctx, params): a closed
\* session answers with an error; an open one answers, and for ListTools
\* either with the last page or with a cursor to the next one.
MCPRequest(p) ==
    /\ pc[p][1] \in MCPOps
    /\ pc[p][2] = "request"
    /\ mcp' = [mcp EXCEPT !.late = @ \/ RequestsClosedSession(p)]
    /\ IF mcp.conn = "closed"
       THEN /\ ret' = [ret EXCEPT ![p] =
                         [op |-> pc[p][1], err |-> ErrSessionClosed]]
            /\ pc' = [pc EXCEPT ![p] = Idle]
            /\ UNCHANGED loc
       ELSE \/ /\ ret' = [ret EXCEPT ![p] =
                            [op |-> pc[p][1], err |-> NoErr]]
               /\ pc' = [pc EXCEPT ![p] = Idle]
               /\ UNCHANGED loc
            \/ /\ pc[p][1] = "ListTools"
               /\ loc[p].page + 1 < MaxPages
               /\ loc' = [loc EXCEPT ![p].page = @ + 1]
               /\ UNCHANGED <<pc, ret>>
    /\ UNCHANGED <<args, obs>>
    /\ MCPFrame

NextMCP ==
    \E p \in Procs :
      \/ CloseCall(p)
      \/ CloseLock(p)
      \/ CloseReturn(p)
      \/ \E op \in MCPOps : MCPCall(p, op)
      \/ MCPRLock(p)
      \/ MCPSnapshot(p)
      \/ MCPRequest(p)

SpecMCP == Init /\ [][NextMCP]_vars

\* C30: the session is closed at most once, a ListTools or CallTool called
\* after the session was closed returns the not-connected error, and no
\* request is made on the session after Close has closed it, however
\* Close, ListTools and CallTool interleave.
C30_NoRequestAfterClose ==
    /\ mcp.closeCalls <= 1
    /\ \A p \in Procs :
         (pc[p] = Idle /\ ret[p].op \in MCPOps /\ obs[p].closedAtCall) =>
           ret[p].err = ErrNotConnected
    /\ ~mcp.late

=============================================================================
